---- MODULE Spec2Model ----
(***************************************************************************)
(* relaycode-core: the operation planner and patch applier of src/patch.ts *)
(* (applyOperations, applyFileOperations, findBestFileMatch).              *)
(*                                                                         *)
(* Representation                                                          *)
(*   path      a sequence of tokens; the tokens "/" and "\\" are the two   *)
(*             separator characters, every other token is a run of         *)
(*             ordinary characters: "src/a.ts" is <<"src", "/", "a.ts">>.  *)
(*   content   a string; Null stands for JavaScript null and Undefined for *)
(*             the undefined that Map.get gives for a missing key.         *)
(*   Map       a sequence of entries [k, v] in insertion order, as a       *)
(*             JavaScript Map iterates them.                               *)
(*   heap      the Map objects of one call, by reference, so that copying  *)
(*             a Map and sharing a Map are different things.               *)
(***************************************************************************)
EXTENDS Integers, Sequences, FiniteSets, TLC

VARIABLES
    operations,     \* the FileOperation[] argument
    given,          \* history: the originalFiles argument as it was passed
    heap,           \* reference -> Map
    fileStates,     \* reference of the working Map ("" before the call)
    pathMapping,    \* Map from -> to built by the rename loop
    renameIdx,      \* position of the rename loop in renameOps
    remappedOps,    \* the non-rename operations after steps 2 and 2.5
    opsByFile,      \* sequence of [path, ops]: the groups in insertion order
    tasks,          \* one record per started per-file task
    queue,          \* microtask queue: task numbers whose await can resume
    firstError,     \* the shared firstError of step 4
    patcherCalls,   \* history: every call made to a patch strategy
    result,         \* what the call returned
    pc,             \* position of applyOperations
    earlier,        \* history: what an earlier call on the same snapshot returned
    \* calculateLineChanges
    lineArgs,       \* its arguments [op, originalFiles, newFiles]
    lineChanges,    \* what it returned
    \* parseLLMResponse
    rawText,        \* its argument
    control,        \* extractAndParseYaml's control
    textWithoutYaml,\* extractAndParseYaml's textWithoutYaml
    lastIndex,      \* CODE_BLOCK_REGEX.lastIndex, as a position from 1
    parsedOps,      \* the local `operations` of parseLLMResponse
    matchedBlocks,  \* the fullMatch of every block that gave an operation
    scanned,        \* history: every match of CODE_BLOCK_REGEX, in exec order
    parsed,         \* what parseLLMResponse returned
    ppc             \* position of parseLLMResponse

applyVars == <<operations, given, heap, fileStates, pathMapping, renameIdx,
               remappedOps, opsByFile, tasks, queue, firstError, patcherCalls,
               result, pc, earlier>>

lineVars == <<lineArgs, lineChanges>>

parseVars == <<rawText, control, textWithoutYaml, lastIndex, parsedOps,
               matchedBlocks, scanned, parsed, ppc>>

vars == <<applyVars, lineVars, parseVars>>

----------------------------------------------------------------------------
(* Bounds *)

MaxOps == 3

----------------------------------------------------------------------------
(* Values *)

Null == "<null>"
Undefined == "<undefined>"
NullPath == <<"<null>">>
UndefinedPath == <<"<undefined>">>

NoError == [kind |-> "none", path |-> <<>>, detail |-> ""]
NoResult == [success |-> FALSE, error |-> NoError]

OriginalRef == "originalFiles"
CopyRef == "fileStates"

Truthy(p) == p # NullPath /\ p # UndefinedPath /\ p # <<>>

----------------------------------------------------------------------------
(* JavaScript Map, in insertion order *)

Range(s) == {s[i] : i \in 1..Len(s)}

MapKeys(m) == [i \in 1..Len(m) |-> m[i].k]

MapHas(m, key) == \E i \in 1..Len(m) : m[i].k = key

MapGet(m, key, missing) ==
    IF MapHas(m, key)
    THEN m[CHOOSE i \in 1..Len(m) : m[i].k = key].v
    ELSE missing

MapSet(m, key, val) ==
    IF MapHas(m, key)
    THEN [i \in 1..Len(m) |-> IF m[i].k = key THEN [k |-> key, v |-> val] ELSE m[i]]
    ELSE Append(m, [k |-> key, v |-> val])

SelectIdx(s, Test(_)) ==
    LET F[i \in 0..Len(s)] ==
            IF i = 0 THEN <<>>
            ELSE IF Test(s[i]) THEN Append(F[i - 1], i) ELSE F[i - 1]
    IN  F[Len(s)]

----------------------------------------------------------------------------
(* Paths: path.basename (POSIX) and the normalize/split of findBestFileMatch *)

IsSlash(tok) == tok = "/"

StripTrailingSlashes(p) ==
    LET keep == {i \in 1..Len(p) : ~IsSlash(p[i])}
    IN  IF keep = {} THEN <<>>
        ELSE SubSeq(p, 1, CHOOSE i \in keep : \A j \in keep : j <= i)

Basename(p) ==
    LET q == StripTrailingSlashes(p)
        slashes == {i \in 1..Len(q) : IsSlash(q[i])}
        last == IF slashes = {} THEN 0
                ELSE CHOOSE i \in slashes : \A j \in slashes : j <= i
    IN  SubSeq(q, last + 1, Len(q))

\* mutant of Normalize: a backslash is no separator
Normalize_None(p) == p

\* line 86
Normalize(p) == [i \in 1..Len(p) |-> IF p[i] = "\\" THEN "/" ELSE p[i]]

Split(p) ==
    LET F[i \in 0..Len(p)] ==
            IF i = 0 THEN << <<>> >>
            ELSE LET done == F[i - 1]
                 IN  IF IsSlash(p[i]) THEN Append(done, <<>>)
                     ELSE [done EXCEPT ![Len(done)] = Append(@, p[i])]
    IN  F[Len(p)]

Reverse(s) == [i \in 1..Len(s) |-> s[Len(s) + 1 - i]]

Min(a, b) == IF a < b THEN a ELSE b

----------------------------------------------------------------------------
(* findBestFileMatch *)

Score(targetSegments, candidateSegments) ==
    LET len == Min(Len(targetSegments), Len(candidateSegments))
        differ == {i \in 1..len : targetSegments[i] # candidateSegments[i]}
    IN  IF differ = {} THEN len
        ELSE (CHOOSE i \in differ : \A j \in differ : i <= j) - 1

\* mutant of findBestFileMatch: on equal scores the first candidate is kept
findBestFileMatch_FirstWins(targetPath, availablePaths) ==
    LET targetFileName == Basename(targetPath)
        at == SelectIdx(availablePaths, LAMBDA p : Basename(p) = targetFileName)
        candidates == [i \in 1..Len(at) |-> availablePaths[at[i]]]
        targetSegments == Reverse(Split(Normalize(targetPath)))
        Loop[i \in 0..Len(candidates)] ==
            IF i = 0 THEN [bestCandidate |-> NullPath, highestScore |-> -1]
            ELSE LET acc == Loop[i - 1]
                     score == Score(targetSegments,
                                    Reverse(Split(Normalize(candidates[i]))))
                 IN  IF score > acc.highestScore
                     THEN [bestCandidate |-> candidates[i], highestScore |-> score]
                     ELSE acc
    IN  IF targetFileName = <<>> THEN NullPath
        ELSE IF Len(candidates) = 0 THEN NullPath
        ELSE IF Len(candidates) = 1 THEN candidates[1]
        ELSE Loop[Len(candidates)].bestCandidate

\* lines 77-112
findBestFileMatch(targetPath, availablePaths) ==
    LET targetFileName == Basename(targetPath)
        at == SelectIdx(availablePaths, LAMBDA p : Basename(p) = targetFileName)
        candidates == [i \in 1..Len(at) |-> availablePaths[at[i]]]
        targetSegments == Reverse(Split(Normalize(targetPath)))
        Loop[i \in 0..Len(candidates)] ==
            IF i = 0 THEN [bestCandidate |-> NullPath, highestScore |-> -1]
            ELSE LET acc == Loop[i - 1]
                     score == Score(targetSegments,
                                    Reverse(Split(Normalize(candidates[i]))))
                 IN  IF score > acc.highestScore
                     THEN [bestCandidate |-> candidates[i], highestScore |-> score]
                     ELSE IF score = acc.highestScore
                     THEN [acc EXCEPT !.bestCandidate = NullPath]
                     ELSE acc
    IN  IF targetFileName = <<>> THEN NullPath
        ELSE IF Len(candidates) = 0 THEN NullPath
        ELSE IF Len(candidates) = 1 THEN candidates[1]
        ELSE Loop[Len(candidates)].bestCandidate

----------------------------------------------------------------------------
(* The two patchers of apply-multi-diff, which patch.ts calls through       *)
(* patchStrategies.  Both are pure.  A diff body is a token: DiffTable      *)
(* gives the content it applies to and the content it produces; applied to  *)
(* any other content the patcher reports failure; on "!throw" it throws.    *)

DiffTable ==
    ("x=>y" :> [pre |-> "x", post |-> "y"]) @@
    ("y=>x" :> [pre |-> "y", post |-> "x"]) @@
    ("=>x"  :> [pre |-> "",  post |-> "x"])

PatchOutcome(kind, content, message) ==
    [kind |-> kind, content |-> content, message |-> message]

NoOutcome == PatchOutcome("none", Null, "")

patchStrategies(strategy, originalContent, diffContent) ==
    IF diffContent = "!throw"
    THEN PatchOutcome("throw", Null, "threw")
    ELSE IF diffContent \in DOMAIN DiffTable
            /\ DiffTable[diffContent].pre = originalContent
    THEN PatchOutcome("ok", DiffTable[diffContent].post, "")
    ELSE PatchOutcome("fail", Null, "no match")

KnownPatchers == {"standard-diff", "search-replace"}

----------------------------------------------------------------------------
(* applyFileOperations: one file's chain.  `ops` are the positions of the   *)
(* chain's operations in `all` (remappedOps).  `log` is history: for every  *)
(* operation the loop reached, its position and the content it found.       *)
(*                                                                          *)
(* The chain runs synchronously    *)
(* from one await to the next; RunChain is one such run, starting at        *)
(* position i of the chain with content cur.  It ends either suspended on   *)
(* `await patcher(diffParams)` (st = "await_patch", the outcome pending) or *)
(* returned (st = "await_chain": the caller's await of the result).         *)

Error(kind, path, detail) == [kind |-> kind, path |-> path, detail |-> detail]

ChainOk(content) == [success |-> TRUE, content |-> content, error |-> NoError]
ChainFail(err) == [success |-> FALSE, content |-> Null, error |-> err]

Returned(cur, i, res, log) ==
    [st |-> "await_chain", cur |-> cur, i |-> i, res |-> res,
     pending |-> NoOutcome, log |-> log, calls |-> <<>>]

\* mutant of DeleteOfMissing: the check is missing
DeleteOfMissing_Never(currentContent) == FALSE

\* line 32
DeleteOfMissing(currentContent) == currentContent = Null

\* mutant of SearchReplaceOnNewFile: the check is missing
SearchReplaceOnNewFile_Never(currentContent, op) == FALSE

\* lines 43-44
SearchReplaceOnNewFile(currentContent, op) ==
    currentContent = Null /\ op.patchStrategy = "search-replace"

RECURSIVE RunChain(_, _, _, _, _, _)
RunChain(filePath, ops, all, cur, i, log) ==
    IF i > Len(ops) THEN Returned(cur, i, ChainOk(cur), log)
    ELSE
    LET op == all[ops[i]]
        seen == Append(log, [op |-> ops[i], before |-> cur])
    IN  IF op.type = "delete"
        THEN IF DeleteOfMissing(cur)
             THEN Returned(cur, i, ChainFail(Error("CannotDelete", filePath, "")), seen)
             ELSE RunChain(filePath, ops, all, Null, i + 1, seen)
        ELSE IF op.patchStrategy = "replace"
        THEN RunChain(filePath, ops, all, op.content, i + 1, seen)
        ELSE IF SearchReplaceOnNewFile(cur, op)
        THEN Returned(cur, i, ChainFail(Error("SearchReplaceOnNewFile", filePath, "")), seen)
        ELSE IF op.patchStrategy \notin KnownPatchers
        THEN Returned(cur, i, ChainFail(Error("UnknownStrategy", <<>>, op.patchStrategy)), seen)
        ELSE LET originalContent == IF cur = Null THEN "" ELSE cur
             IN  [st |-> "await_patch", cur |-> cur, i |-> i, res |-> ChainOk(cur),
                  pending |-> patchStrategies(op.patchStrategy, originalContent, op.content),
                  log |-> seen,
                  calls |-> << [op |-> ops[i], strategy |-> op.patchStrategy,
                                path |-> filePath,
                                originalContent |-> originalContent,
                                diffContent |-> op.content] >>]

(* The continuation of `await patcher(diffParams)`. *)
AfterPatch(filePath, ops, all, cur, i, log, outcome) ==
    LET op == all[ops[i]]
    IN  IF outcome.kind = "ok"
        THEN IF outcome.content = Null
             THEN Returned(cur, i, ChainFail(Error("PatchNoContent", filePath, "")), log)
             ELSE RunChain(filePath, ops, all, outcome.content, i + 1, log)
        ELSE IF outcome.kind = "fail"
        THEN Returned(cur, i, ChainFail(Error("PatchFailed", filePath, outcome.message)), log)
        ELSE Returned(cur, i, ChainFail(Error("PatchError", filePath, op.patchStrategy)), log)

----------------------------------------------------------------------------
(* applyOperations, steps 1 to 3 *)

\* mutant of RenameOfMissing: a tracked path without content counts as missing
RenameOfMissing_Falsy(content) == content \in {Undefined, Null}

\* line 128
RenameOfMissing(content) == content = Undefined

\* mutant of MoveContent: the old path keeps its content
MoveContent_KeepOld(states, op, content) == MapSet(states, op.to, content)

\* lines 131-132
MoveContent(states, op, content) ==
    MapSet(MapSet(states, op.from, Null), op.to, content)

\* mutant of NewMap: the working Map is the caller's Map
NewMap_Shared(h, source) == [heap |-> h, ref |-> source]

\* line 118, `new Map(originalFiles)`: a fresh Map object with the same entries
NewMap(h, source) ==
    [heap |-> [h EXCEPT ![CopyRef] = h[source]], ref |-> CopyRef]

\* mutant of renameOps: only the renames no other operation stands before
renameOps_Leading ==
    LET at == SelectIdx(operations, LAMBDA op : op.type = "rename")
        leading == {i \in 1..Len(at) : at[i] = i}
    IN  [i \in 1..Cardinality(leading) |-> operations[i]]

\* line 121
renameOps ==
    LET at == SelectIdx(operations, LAMBDA op : op.type = "rename")
    IN  [i \in 1..Len(at) |-> operations[at[i]]]

\* positions in `operations` of the operations that are not renames
OtherAt == SelectIdx(operations, LAMBDA op : op.type # "rename")

otherOps == [i \in 1..Len(OtherAt) |-> operations[OtherAt[i]]]

\* mutant of UpdateMapping: earlier entries are not redirected
UpdateMapping_Direct(mapping, op) == MapSet(mapping, op.from, op.to)

\* mutant of UpdateMapping: an entry already recorded for op.from is kept
UpdateMapping_NoOverwrite(mapping, op) ==
    LET redirected ==
            [i \in 1..Len(mapping) |->
                IF mapping[i].v = op.from
                THEN [k |-> mapping[i].k, v |-> op.to]
                ELSE mapping[i]]
    IN  IF MapHas(mapping, op.from) THEN redirected
        ELSE MapSet(redirected, op.from, op.to)

\* lines 134-137: redirect what pointed at op.from, then record from -> to
UpdateMapping(mapping, op) ==
    LET redirected ==
            [i \in 1..Len(mapping) |->
                IF mapping[i].v = op.from
                THEN [k |-> mapping[i].k, v |-> op.to]
                ELSE mapping[i]]
    IN  MapSet(redirected, op.from, op.to)

\* step 2
Remap(mapping, op) ==
    LET newPath == MapGet(mapping, op.path, UndefinedPath)
    IN  IF Truthy(newPath) THEN [op EXCEPT !.path = newPath] ELSE op

\* mutant of IsPatchOrDelete: replace writes are repaired too
IsPatchOrDelete_Any(op) == TRUE

\* line 152
IsPatchOrDelete(op) ==
    (op.type = "write" /\ op.patchStrategy # "replace") \/ op.type = "delete"

\* step 2.5
Repair(states, op) ==
    LET fileExists == MapHas(states, op.path)
        bestMatch == findBestFileMatch(op.path, MapKeys(states))
    IN  IF ~fileExists /\ IsPatchOrDelete(op) /\ Truthy(bestMatch)
        THEN [op EXCEPT !.path = bestMatch]
        ELSE op

\* mutant of PushOp: every operation gets a group of its own
PushOp_NewGroup(groups, path, j) ==
    Append(groups, [path |-> path, ops |-> <<j>>])

\* mutant of PushOp: the operation is put at the front of its group
PushOp_Front(groups, path, j) ==
    IF \E g \in 1..Len(groups) : groups[g].path = path
    THEN [g \in 1..Len(groups) |->
            IF groups[g].path = path
            THEN [groups[g] EXCEPT !.ops = <<j>> \o @]
            ELSE groups[g]]
    ELSE Append(groups, [path |-> path, ops |-> <<j>>])

\* lines 169-170: the group of a path is created on first use, then appended to
PushOp(groups, path, j) ==
    IF \E g \in 1..Len(groups) : groups[g].path = path
    THEN [g \in 1..Len(groups) |->
            IF groups[g].path = path
            THEN [groups[g] EXCEPT !.ops = Append(@, j)]
            ELSE groups[g]]
    ELSE Append(groups, [path |-> path, ops |-> <<j>>])

\* step 3
Group(ops) ==
    LET F[j \in 0..Len(ops)] ==
            IF j = 0 THEN <<>> ELSE PushOp(F[j - 1], ops[j].path, j)
    IN  F[Len(ops)]

\* mutant of Return: the error is dropped
Return_Always(err, ref) == [success |-> TRUE, newFileStates |-> ref]

\* lines 193-194
Return(err, ref) ==
    IF err # NoError
    THEN [success |-> FALSE, error |-> err]
    ELSE [success |-> TRUE, newFileStates |-> ref]

----------------------------------------------------------------------------
(* Actions *)

\* line 118
Call ==
    /\ pc = "idle"
    /\ LET made == NewMap(heap, OriginalRef)
       IN  /\ heap' = made.heap
           /\ fileStates' = made.ref
    /\ pc' = "renames"
    /\ UNCHANGED <<operations, given, pathMapping, renameIdx, remappedOps,
                   opsByFile, tasks, queue, firstError, patcherCalls, result>>
    /\ UNCHANGED <<lineVars, parseVars, earlier>>

\* lines 126-138, one iteration
RenameStep ==
    /\ pc = "renames"
    /\ renameIdx <= Len(renameOps)
    /\ LET op == renameOps[renameIdx]
           content == MapGet(heap[fileStates], op.from, Undefined)
       IN  IF RenameOfMissing(content)
           THEN /\ result' = [success |-> FALSE,
                              error |-> Error("CannotRename", op.from, "")]
                /\ pc' = "done"
                /\ UNCHANGED <<heap, pathMapping, renameIdx>>
           ELSE /\ heap' = [heap EXCEPT ![fileStates] = MoveContent(@, op, content)]
                /\ pathMapping' = UpdateMapping(pathMapping, op)
                /\ renameIdx' = renameIdx + 1
                /\ UNCHANGED <<result, pc>>
    /\ UNCHANGED <<operations, given, fileStates, remappedOps, opsByFile,
                   tasks, queue, firstError, patcherCalls>>
    /\ UNCHANGED <<lineVars, parseVars, earlier>>

\* lines 141-175
Plan ==
    /\ pc = "renames"
    /\ renameIdx > Len(renameOps)
    /\ LET remapped == [j \in 1..Len(otherOps) |-> Remap(pathMapping, otherOps[j])]
           repaired == [j \in 1..Len(otherOps) |-> Repair(heap[fileStates], remapped[j])]
       IN  /\ remappedOps' = repaired
           /\ opsByFile' = Group(repaired)
    /\ pc' = "spawn"
    /\ UNCHANGED <<operations, given, heap, fileStates, pathMapping, renameIdx,
                   tasks, queue, firstError, patcherCalls, result>>
    /\ UNCHANGED <<lineVars, parseVars, earlier>>

Suspend(filePath, ops, run) ==
    [path |-> filePath, ops |-> ops, st |-> run.st, cur |-> run.cur, i |-> run.i,
     res |-> run.res, pending |-> run.pending, log |-> run.log]

\* lines 177-189, one iteration: the task runs up to its first await
StartTask ==
    /\ pc = "spawn"
    /\ Len(tasks) < Len(opsByFile)
    /\ LET t == Len(tasks) + 1
           filePath == opsByFile[t].path
           got == MapGet(heap[fileStates], filePath, Undefined)
           initialContent == IF got = Undefined THEN Null ELSE got
           run == RunChain(filePath, opsByFile[t].ops, remappedOps,
                           initialContent, 1, <<>>)
       IN  /\ tasks' = Append(tasks, Suspend(filePath, opsByFile[t].ops, run))
           /\ queue' = Append(queue, t)
           /\ patcherCalls' = patcherCalls \o run.calls
    /\ UNCHANGED <<operations, given, heap, fileStates, pathMapping, renameIdx,
                   remappedOps, opsByFile, firstError, result, pc>>
    /\ UNCHANGED <<lineVars, parseVars, earlier>>

\* line 191: every task is started, the call awaits them
AwaitAll ==
    /\ pc = "spawn"
    /\ Len(tasks) = Len(opsByFile)
    /\ pc' = "run"
    /\ UNCHANGED <<operations, given, heap, fileStates, pathMapping, renameIdx,
                   remappedOps, opsByFile, tasks, queue, firstError,
                   patcherCalls, result>>
    /\ UNCHANGED <<lineVars, parseVars, earlier>>

\* line 59 resumed: the patcher's promise has settled
ResumePatch ==
    /\ pc = "run"
    /\ queue # <<>>
    /\ tasks[Head(queue)].st = "await_patch"
    /\ LET t == Head(queue)
           task == tasks[t]
           run == AfterPatch(task.path, task.ops, remappedOps, task.cur, task.i,
                             task.log, task.pending)
       IN  /\ tasks' = [tasks EXCEPT ![t] = Suspend(task.path, task.ops, run)]
           /\ queue' = Append(Tail(queue), t)
           /\ patcherCalls' = patcherCalls \o run.calls
    /\ UNCHANGED <<operations, given, heap, fileStates, pathMapping, renameIdx,
                   remappedOps, opsByFile, firstError, result, pc>>
    /\ UNCHANGED <<lineVars, parseVars, earlier>>

\* lines 180-187 resumed: applyFileOperations has returned
ResumeResult ==
    /\ pc = "run"
    /\ queue # <<>>
    /\ tasks[Head(queue)].st = "await_chain"
    /\ LET t == Head(queue)
           task == tasks[t]
       IN  /\ tasks' = [tasks EXCEPT ![t].st = "done"]
           /\ queue' = Tail(queue)
           /\ IF firstError # NoError
              THEN UNCHANGED <<heap, firstError>>
              ELSE IF task.res.success
              THEN /\ heap' = [heap EXCEPT ![fileStates] =
                                 MapSet(@, task.path, task.res.content)]
                   /\ UNCHANGED firstError
              ELSE /\ firstError' = task.res.error
                   /\ UNCHANGED heap
    /\ UNCHANGED <<operations, given, fileStates, pathMapping, renameIdx,
                   remappedOps, opsByFile, patcherCalls, result, pc>>
    /\ UNCHANGED <<lineVars, parseVars, earlier>>

\* lines 191-194: Promise.all has settled
Finish ==
    /\ pc = "run"
    /\ queue = <<>>
    /\ result' = Return(firstError, fileStates)
    /\ pc' = "done"
    /\ UNCHANGED <<operations, given, heap, fileStates, pathMapping, renameIdx,
                   remappedOps, opsByFile, tasks, queue, firstError, patcherCalls>>
    /\ UNCHANGED <<lineVars, parseVars, earlier>>

Next ==
    \/ Call
    \/ RenameStep
    \/ Plan
    \/ StartTask
    \/ AwaitAll
    \/ ResumePatch
    \/ ResumeResult
    \/ Finish

----------------------------------------------------------------------------
(* Inputs *)

Rename(from, to) == [type |-> "rename", from |-> from, to |-> to]
Delete(path) == [type |-> "delete", path |-> path]
Write(path, content, strategy) ==
    [type |-> "write", path |-> path, content |-> content, patchStrategy |-> strategy]

SeqsUpTo(S, n) == UNION {[1..k -> S] : k \in 0..n}

\* every Map whose keys are taken, in this order, from `order`
RECURSIVE MapsOver(_, _)
MapsOver(order, values) ==
    IF order = <<>> THEN {<<>>}
    ELSE LET rest == MapsOver(Tail(order), values)
         IN  rest \cup {<<[k |-> Head(order), v |-> v]>> \o m :
                            v \in values, m \in rest}

InitWith(opSeqs, snapshots) ==
    /\ operations \in opSeqs
    /\ given \in snapshots
    /\ heap = (OriginalRef :> given) @@ (CopyRef :> <<>>)
    /\ fileStates = ""
    /\ pathMapping = <<>>
    /\ renameIdx = 1
    /\ remappedOps = <<>>
    /\ opsByFile = <<>>
    /\ tasks = <<>>
    /\ queue = <<>>
    /\ firstError = NoError
    /\ patcherCalls = <<>>
    /\ result = NoResult
    /\ pc = "idle"
    /\ earlier = NoResult

\* applyOperations is not being called
ApplyIdle == InitWith({<<>>}, {<<>>})

\* calculateLineChanges is not being called
LineIdle ==
    /\ lineArgs = NoResult
    /\ lineChanges = NoResult

\* parseLLMResponse is not being called
ParseIdle ==
    /\ rawText = <<>>
    /\ control = NoResult
    /\ textWithoutYaml = <<>>
    /\ lastIndex = 1
    /\ parsedOps = <<>>
    /\ matchedBlocks = <<>>
    /\ scanned = <<>>
    /\ parsed = NoResult
    /\ ppc = "idle"

\* Renames, chains and errors: three files with different names.
A == <<"a.ts">>
B == <<"b.ts">>
C == <<"c.ts">>

CoreOps ==
    {Rename(A, B), Rename(B, C), Rename(B, A), Rename(A, A), Rename(C, A)}
    \cup {Delete(A), Delete(B)}
    \cup {Write(A, "w", "replace"), Write(B, "w", "replace")}
    \cup {Write(A, "x=>y", "search-replace"), Write(B, "=>x", "standard-diff")}

CoreSnapshots == MapsOver(<<A, B, C>>, {Null, "x"})

Init ==
    /\ InitWith(SeqsUpTo(CoreOps, MaxOps), CoreSnapshots)
    /\ LineIdle
    /\ ParseIdle

Spec == Init /\ [][Next]_vars

\* Fuzzy repair: one file name in three directories.
F == <<"a.ts">>
SrcF == <<"src", "/", "a.ts">>
LibF == <<"lib", "/", "a.ts">>

FuzzyOps ==
    {Rename(SrcF, LibF), Rename(LibF, F)}
    \cup {Delete(F), Delete(SrcF)}
    \cup {Write(F, "w", "replace")}
    \cup {Write(F, "x=>y", "search-replace"),
          Write(F, "=>x", "standard-diff"), Write(F, "x=>y", "standard-diff")}

FuzzySnapshots == MapsOver(<<SrcF, LibF, F>>, {Null, "x"})

InitFuzzy ==
    /\ InitWith(SeqsUpTo(FuzzyOps, MaxOps), FuzzySnapshots)
    /\ LineIdle
    /\ ParseIdle

SpecFuzzy == InitFuzzy /\ [][Next]_vars

----------------------------------------------------------------------------
(* Shorthands for the claims *)

Done == pc = "done"
Succeeded == pc = "done" /\ result.success
Failed == pc = "done" /\ ~result.success

\* the Map a successful call returned
Returned_Map == heap[result.newFileStates]

Content(m, path) == MapGet(m, path, Undefined)

\* absent: not a key, or a key whose content is null
Absent(m, path) == Content(m, path) \in {Undefined, Null}

----------------------------------------------------------------------------
(* C1: applyOperations never mutates its input snapshot: at every point of  *)
(* every call, successful or failed, originalFiles has the keys and values  *)
(* it was passed with, and a successful call returns another Map object.    *)

C1_InputNotMutated ==
    /\ heap[OriginalRef] = given
    /\ Succeeded => result.newFileStates # OriginalRef

\* a successful call whose result differs from its input
C1_Witness ==
    /\ Succeeded
    /\ Returned_Map # given
    /\ Len(renameOps) > 0
    /\ Len(otherOps) > 0

----------------------------------------------------------------------------
(* C2: applyOperations is atomic from the caller's view: when a rename or   *)
(* a step of any file's chain fails, the call returns a failure that has    *)
(* an error and no snapshot, also when other chains were committed to the   *)
(* working Map before the failure.                                          *)

RenameFailed == pc = "done" /\ renameIdx <= Len(renameOps)

ChainFailed(t) == tasks[t].st = "done" /\ ~tasks[t].res.success

\* task t was committed to the working Map
Committed(t) ==
    /\ tasks[t].st = "done"
    /\ tasks[t].res.success
    /\ Content(heap[CopyRef], tasks[t].path) = tasks[t].res.content

C2_Atomic ==
    (Done /\ (RenameFailed \/ \E t \in 1..Len(tasks) : ChainFailed(t)))
        => /\ DOMAIN result = {"success", "error"}
           /\ result.success = FALSE
           /\ result.error # NoError

\* a chain fails after another chain changed the working Map
C2_Witness ==
    /\ Failed
    /\ \E t, u \in 1..Len(tasks) :
          /\ ChainFailed(t)
          /\ Committed(u)
          /\ Content(given, tasks[u].path) # tasks[u].res.content

----------------------------------------------------------------------------
(* C3: path aliasing is transitive.  The renames of the list form a chain   *)
(* A -> B (-> C ...) of different non-empty paths, A holds content, W is a  *)
(* replace write or a delete addressed to the old path A and the last       *)
(* operation addressed to the chain.  Then a successful call returns a      *)
(* snapshot in which A is null and the last path of the chain holds W's     *)
(* content (null when W is a delete).                                       *)

RenamePath ==
    [i \in 1..(Len(renameOps) + 1) |->
        IF i = 1 THEN renameOps[1].from ELSE renameOps[i - 1].to]

IsRenameChain ==
    /\ Len(renameOps) >= 1
    /\ \A i \in 1..Len(RenamePath) : RenamePath[i] # <<>>
    /\ \A i \in 2..Len(renameOps) : renameOps[i].from = renameOps[i - 1].to
    /\ \A i, j \in 1..Len(RenamePath) : i # j => RenamePath[i] # RenamePath[j]

OnChain(op) == op.type # "rename" /\ op.path \in Range(RenamePath)

\* operations[w] is addressed to the head of the chain, the last one addressed
\* to the chain, and no other operation can be redirected onto the chain
AliasedWrite(w) ==
    /\ IsRenameChain
    /\ Content(given, RenamePath[1]) \notin {Undefined, Null}
    /\ operations[w].type # "rename"
    /\ operations[w].path = RenamePath[1]
    /\ operations[w].type = "write" => operations[w].patchStrategy = "replace"
    /\ \A v \in 1..Len(operations) :
          /\ (v > w) => ~OnChain(operations[v])
          /\ (operations[v].type # "rename" /\ ~OnChain(operations[v]))
                => (MapHas(given, operations[v].path) \/ ~IsPatchOrDelete(operations[v]))

WrittenBy(op) == IF op.type = "delete" THEN Null ELSE op.content

C3_AliasingTransitive ==
    Succeeded =>
        \A w \in 1..Len(operations) :
            AliasedWrite(w) =>
                /\ Content(Returned_Map, RenamePath[1]) = Null
                /\ Content(Returned_Map, RenamePath[Len(RenamePath)])
                       = WrittenBy(operations[w])

\* A -> B, B -> C and a replace write to A, applied
C3_Witness ==
    /\ Succeeded
    /\ Len(renameOps) >= 2
    /\ \E w \in 1..Len(operations) :
          /\ AliasedWrite(w)
          /\ operations[w].type = "write"
          /\ Content(Returned_Map, RenamePath[Len(RenamePath)]) = operations[w].content

----------------------------------------------------------------------------
(* C5: a rename whose from path is not a key of the working snapshot when   *)
(* the rename is executed ends the call with the cannot-rename-missing      *)
(* error for that path, wherever the rename stands in the list; a from path *)
(* that is a key with null content does not fail, and the to path is null   *)
(* after the rename.                                                        *)

AtRename == pc = "renames" /\ renameIdx <= Len(renameOps)

C5_RenameOfMissing ==
    [][AtRename =>
        LET op == renameOps[renameIdx]
            content == Content(heap[fileStates], op.from)
        IN  /\ content = Undefined =>
                /\ pc' = "done"
                /\ result' = [success |-> FALSE,
                              error |-> Error("CannotRename", op.from, "")]
            /\ content = Null =>
                /\ pc' = "renames"
                /\ renameIdx' = renameIdx + 1
                /\ result' = NoResult
                /\ Content(heap'[fileStates'], op.to) = Null]_vars

\* a rename that is neither the first operation nor the first rename fails
C5_Witness ==
    /\ RenameFailed
    /\ renameIdx > 1
    /\ operations[1].type # "rename"
    /\ result.error = Error("CannotRename", renameOps[renameIdx].from, "")
    /\ ~MapHas(heap[fileStates], renameOps[renameIdx].from)

----------------------------------------------------------------------------
(* C10: a successful rename from -> to, with from and to different, sets    *)
(* the old path to null and gives the new path the content (possibly null)  *)
(* that from held immediately before; a rename of a path to itself leaves   *)
(* the path with its content.                                               *)

RenameSucceeds == AtRename /\ renameIdx' = renameIdx + 1

C10_RenameMoves ==
    [][RenameSucceeds =>
        LET op == renameOps[renameIdx]
            content == Content(heap[fileStates], op.from)
        IN  /\ Content(heap'[fileStates'], op.to) = content
            /\ op.from # op.to => Content(heap'[fileStates'], op.from) = Null]_vars

\* the claim as stated, for every from and to
C10_Original ==
    [][RenameSucceeds =>
        LET op == renameOps[renameIdx]
            content == Content(heap[fileStates], op.from)
        IN  /\ Content(heap'[fileStates'], op.to) = content
            /\ Content(heap'[fileStates'], op.from) = Null]_vars

\* the last rename moved content from one path to another
C10_Witness ==
    /\ pc = "renames"
    /\ renameIdx > 1
    /\ LET op == renameOps[renameIdx - 1]
       IN  /\ op.from # op.to
           /\ Content(heap[fileStates], op.from) = Null
           /\ Content(heap[fileStates], op.to) = "x"
           /\ Content(given, op.to) # "x"

----------------------------------------------------------------------------
(* Shorthands for the chains *)

Planned == pc \in {"spawn", "run", "done"} /\ ~RenameFailed

\* the working snapshot when the renames are done: the snapshot that steps
\* 2.5 to 4 start from
AfterRenames ==
    LET Moved[i \in 0..Len(renameOps)] ==
            IF i = 0 THEN given
            ELSE MoveContent(Moved[i - 1], renameOps[i],
                             Content(Moved[i - 1], renameOps[i].from))
    IN  Moved[Len(renameOps)]

OrNull(content) == IF content = Undefined THEN Null ELSE content

IsDelete(j) == remappedOps[j].type = "delete"
IsPatch(j, strategy) ==
    remappedOps[j].type = "write" /\ remappedOps[j].patchStrategy = strategy

\* the patcher was called for operation j
Called(j) == \E c \in 1..Len(patcherCalls) : patcherCalls[c].op = j

\* the loop of task t stopped at entry n of its log, with this error
StoppedAt(t, n, kind) ==
    /\ n = Len(tasks[t].log)
    /\ tasks[t].res = ChainFail(Error(kind, tasks[t].path, ""))

\* every chain starts from the content its path has after the renames
ChainsStartFromSnapshot ==
    \A t \in 1..Len(tasks) :
        /\ tasks[t].log # <<>>
        /\ tasks[t].log[1].before = OrNull(Content(AfterRenames, tasks[t].path))

----------------------------------------------------------------------------
(* C4: a delete whose target path, after rename remapping and fuzzy repair, *)
(* has absent content at that point of its chain (the path is not a key of  *)
(* the working snapshot or holds null after the renames, or was deleted     *)
(* earlier in the chain) fails its chain with the cannot-delete-missing     *)
(* error for that path, and the call returns a failure.                     *)

----------------------------------------------------------------------------
(* C6: a search-replace write that finds the content of its path absent at  *)
(* that point of the chain fails the chain with the                         *)
(* search-replace-on-new-file error and the patcher is not called for it;   *)
(* this is so after a delete, and when the content is there (after a        *)
(* replace write that created the file) the patcher is called with it.      *)

C6_SearchReplaceOnNewFile ==
    Planned =>
        /\ ChainsStartFromSnapshot
        /\ \A t \in 1..Len(tasks) : \A n \in 1..Len(tasks[t].log) :
              LET entry == tasks[t].log[n]
              IN  IsPatch(entry.op, "search-replace") =>
                      IF entry.before = Null
                      THEN /\ StoppedAt(t, n, "SearchReplaceOnNewFile")
                           /\ ~Called(entry.op)
                           /\ Done => ~result.success
                      ELSE \E c \in 1..Len(patcherCalls) :
                              /\ patcherCalls[c].op = entry.op
                              /\ patcherCalls[c].strategy = "search-replace"
                              /\ patcherCalls[c].originalContent = entry.before

\* a search-replace after a delete of the same file fails the call
C6_Witness ==
    /\ Failed
    /\ \E t \in 1..Len(tasks) : \E n \in 2..Len(tasks[t].log) :
          /\ IsPatch(tasks[t].log[n].op, "search-replace")
          /\ IsDelete(tasks[t].log[n - 1].op)
          /\ tasks[t].log[n].before = Null
          /\ result.error = Error("SearchReplaceOnNewFile", tasks[t].path, "")
          /\ patcherCalls = <<>>

----------------------------------------------------------------------------
(* C7: a replace write to a path that is not a key of the snapshot and not  *)
(* a renamed-from path keeps its path through remapping and fuzzy repair,   *)
(* also when exactly one key has the same basename, and a successful call   *)
(* returns that path with the written content (when the write is the last   *)
(* operation of its chain).                                                 *)

IsCreation(j) ==
    /\ otherOps[j].type = "write"
    /\ otherOps[j].patchStrategy = "replace"
    /\ ~MapHas(given, otherOps[j].path)
    /\ \A r \in 1..Len(renameOps) : renameOps[r].from # otherOps[j].path

LastOfItsChain(j) ==
    \A g \in 1..Len(opsByFile) :
        opsByFile[g].path = remappedOps[j].path
            => opsByFile[g].ops[Len(opsByFile[g].ops)] = j

SameBasename(m, path) ==
    {i \in 1..Len(m) : Basename(m[i].k) = Basename(path)}

C7_ReplaceCreates ==
    Planned =>
        \A j \in 1..Len(otherOps) :
            IsCreation(j) =>
                /\ remappedOps[j] = otherOps[j]
                /\ (Succeeded /\ LastOfItsChain(j)) =>
                      Content(Returned_Map, otherOps[j].path) = otherOps[j].content

\* one key has the basename of the new path, and the new path is created
C7_Witness ==
    /\ Succeeded
    /\ Len(renameOps) = 0
    /\ \E j \in 1..Len(otherOps) :
          /\ IsCreation(j)
          /\ Cardinality(SameBasename(given, otherOps[j].path)) = 1
          /\ Content(Returned_Map, otherOps[j].path) = otherOps[j].content
          /\ Returned_Map = Append(given, [k |-> otherOps[j].path,
                                            v |-> otherOps[j].content])

----------------------------------------------------------------------------
(* C8: fuzzy repair with a tie.  A patch or delete targets a path that is   *)
(* not a key of the working snapshot, and two or more keys with its         *)
(* basename share the highest trailing-segment score.  Then the path is     *)
(* left unchanged and the operation is applied at the original path: as the *)
(* first operation of its chain, a delete fails with cannot-delete-missing  *)
(* and a search-replace with search-replace-on-new-file, for the original   *)
(* path, and the call fails; a standard-diff is applied to the empty        *)
(* string.                                                                  *)

TrailingScore(target, candidate) ==
    Score(Reverse(Split(Normalize(target))), Reverse(Split(Normalize(candidate))))

\* two or more keys with the basename of `target` share the highest score
Tie(m, target) ==
    LET same == SameBasename(m, target)
        best == {i \in same : \A o \in same :
                    TrailingScore(target, m[o].k) <= TrailingScore(target, m[i].k)}
    IN  Cardinality(best) >= 2

\* operation j reaches step 2.5 as a patch or delete of a missing path, in a tie
TiedRepair(j) ==
    LET op == Remap(pathMapping, otherOps[j])
    IN  /\ IsPatchOrDelete(op)
        /\ ~MapHas(AfterRenames, op.path)
        /\ Tie(AfterRenames, op.path)

FirstOfItsChain(t, j) == tasks[t].ops[1] = j

C8_TieLeavesPath ==
    Planned =>
        \A j \in 1..Len(otherOps) :
            TiedRepair(j) =>
                /\ remappedOps[j] = Remap(pathMapping, otherOps[j])
                /\ \A t \in 1..Len(tasks) :
                      FirstOfItsChain(t, j) =>
                          /\ tasks[t].path = remappedOps[j].path
                          /\ tasks[t].log[1] = [op |-> j, before |-> Null]
                          /\ IsDelete(j) =>
                                (StoppedAt(t, 1, "CannotDelete") /\ (Done => ~result.success))
                          /\ IsPatch(j, "search-replace") =>
                                (StoppedAt(t, 1, "SearchReplaceOnNewFile")
                                    /\ (Done => ~result.success))
                          /\ IsPatch(j, "standard-diff") =>
                                \E c \in 1..Len(patcherCalls) :
                                    /\ patcherCalls[c].op = j
                                    /\ patcherCalls[c].originalContent = ""

\* the claim as stated: the path is left unchanged and the call reports the
\* error for that path
C8_Original ==
    (Done /\ ~RenameFailed) =>
        \A j \in 1..Len(otherOps) :
            TiedRepair(j) =>
                /\ remappedOps[j] = Remap(pathMapping, otherOps[j])
                /\ ~result.success
                /\ result.error.path = remappedOps[j].path

\* a delete in a tie between two files: the call fails for the original path
C8_Witness ==
    /\ Failed
    /\ Planned
    /\ \E j \in 1..Len(otherOps) :
          /\ TiedRepair(j)
          /\ IsDelete(j)
          /\ Cardinality({i \in 1..Len(AfterRenames) : AfterRenames[i].v # Null}) >= 2
          /\ result.error = Error("CannotDelete", otherOps[j].path, "")

----------------------------------------------------------------------------
(* C9: within one file's chain the operations are applied in the order in   *)
(* which they stand in the operation list, whichever way they reached the   *)
(* path: directly, by rename remapping or by fuzzy repair; and the chain of *)
(* a path has every operation that ends on that path.                       *)

\* position in `operations` of the n-th operation that task t applied
AppliedAt(t, n) == OtherAt[tasks[t].log[n].op]

C9_ChainOrder ==
    Planned =>
        /\ \A j \in 1..Len(otherOps) : otherOps[j] = operations[OtherAt[j]]
        /\ \A g \in 1..Len(opsByFile) :
              Range(opsByFile[g].ops) =
                  {j \in 1..Len(remappedOps) : remappedOps[j].path = opsByFile[g].path}
        /\ \A t \in 1..Len(tasks) :
              /\ tasks[t].ops = opsByFile[t].ops
              /\ \A n \in 1..Len(tasks[t].log) :
                    tasks[t].log[n].op = tasks[t].ops[n]
              /\ \A n, m \in 1..Len(tasks[t].log) :
                    n < m => AppliedAt(t, n) < AppliedAt(t, m)
              /\ (tasks[t].st # "await_patch" /\ tasks[t].res.success)
                    => Len(tasks[t].log) = Len(tasks[t].ops)

\* one chain applied an operation that was redirected by fuzzy repair and an
\* operation that was not, in list order
C9_Witness ==
    /\ Succeeded
    /\ \E t \in 1..Len(tasks) : \E n, m \in 1..Len(tasks[t].log) :
          /\ n # m
          /\ otherOps[tasks[t].log[n].op].path # tasks[t].path
          /\ otherOps[tasks[t].log[m].op].path = tasks[t].path

----------------------------------------------------------------------------
(* The line-change accountant: calculateLineChanges, lines 197-256          *)
(*                                                                         *)
(* Here a content is a sequence of characters, "\n" among them, so that    *)
(* split('\n') is computed; NullText stands for null and <<>> is ''.       *)

MaxText == 3

NullText == <<"<null>">>

Max(a, b) == IF a > b THEN a ELSE b

\* String.prototype.split('\n')
RECURSIVE SplitLines(_)
SplitLines(text) ==
    IF \A i \in 1..Len(text) : text[i] # "\n" THEN <<text>>
    ELSE LET i == CHOOSE k \in 1..Len(text) :
                      text[k] = "\n" /\ \A j \in 1..(k - 1) : text[j] # "\n"
         IN  <<SubSeq(text, 1, i - 1)>> \o SplitLines(SubSeq(text, i + 1, Len(text)))

RECURSIVE LcsCells_NoPrev(_, _, _, _, _, _)
LcsCells_NoPrev(s1, s2, i, j, dp, prev) ==
    IF j > Len(s2) THEN dp
    ELSE LET cell == IF s1[i] = s2[j] THEN dp[j - 1] + 1 ELSE Max(dp[j], dp[j - 1])
         IN  LcsCells_NoPrev(s1, s2, i, j + 1, [dp EXCEPT ![j] = cell], prev)

\* lines 210-218: the inner loop over j, on the one row dp
RECURSIVE LcsCells(_, _, _, _, _, _)
LcsCells(s1, s2, i, j, dp, prev) ==
    IF j > Len(s2) THEN dp
    ELSE LET temp == dp[j]
             cell == IF s1[i] = s2[j] THEN prev + 1 ELSE Max(dp[j], dp[j - 1])
         IN  LcsCells(s1, s2, i, j + 1, [dp EXCEPT ![j] = cell], temp)

\* mutant of LcsRows: every row starts from zeros
RECURSIVE LcsRows_FreshRow(_, _, _, _)
LcsRows_FreshRow(s1, s2, i, dp) ==
    IF i > Len(s1) THEN dp
    ELSE LcsRows_FreshRow(s1, s2, i + 1,
                          LcsCells(s1, s2, i, 1, [j \in DOMAIN dp |-> 0], 0))

\* lines 207-219: the outer loop over i
RECURSIVE LcsRows(_, _, _, _)
LcsRows(s1, s2, i, dp) ==
    IF i > Len(s1) THEN dp
    ELSE LcsRows(s1, s2, i + 1, LcsCells(s1, s2, i, 1, dp, 0))

\* lines 197-221
calculateLcsLength(a, b) ==
    LET s1 == IF Len(a) < Len(b) THEN b ELSE a
        s2 == IF Len(a) < Len(b) THEN a ELSE b
        n == Len(s2)
    IN  LcsRows(s1, s2, 1, [j \in 0..n |-> 0])[n]

LineChanges(added, removed, difference) ==
    [added |-> added, removed |-> removed, difference |-> difference]

\* line 234: `oldContent ? oldContent.split('\n') : []`
LinesOfDeleted_Split(oldContent) ==
    IF oldContent = NullText THEN <<>> ELSE SplitLines(oldContent)

LinesOfDeleted(oldContent) ==
    IF oldContent = NullText \/ oldContent = <<>> THEN <<>>
    ELSE SplitLines(oldContent)

\* mutant of NullOrEmpty: the empty string is not tested for
NullOrEmpty_NullOnly(content) ==
    content = NullText

\* lines 245 and 248: `content === null || content === ''`
NullOrEmpty(content) ==
    content = NullText \/ content = <<>>

\* lines 223-256
calculateLineChanges(op, originalFiles, newFiles) ==
    IF op.type = "rename" THEN LineChanges(0, 0, 0)
    ELSE LET oldContent == MapGet(originalFiles, op.path, NullText)
         IN  IF op.type = "delete"
             THEN LET oldLines == LinesOfDeleted(oldContent)
                  IN  LineChanges(0, Len(oldLines), Len(oldLines))
             ELSE LET newContent == MapGet(newFiles, op.path, NullText)
                      oldLines == IF oldContent = NullText THEN <<>>
                                  ELSE SplitLines(oldContent)
                      newLines == IF newContent = NullText THEN <<>>
                                  ELSE SplitLines(newContent)
                  IN  IF oldContent = newContent THEN LineChanges(0, 0, 0)
                      ELSE IF NullOrEmpty(oldContent)
                      THEN LineChanges(Len(newLines), 0, Len(newLines))
                      ELSE IF NullOrEmpty(newContent)
                      THEN LineChanges(0, Len(oldLines), Len(oldLines))
                      ELSE LET lcsLength == calculateLcsLength(oldLines, newLines)
                               added == Len(newLines) - lcsLength
                               removed == Len(oldLines) - lcsLength
                           IN  LineChanges(added, removed, added + removed)

\* one call of calculateLineChanges
CalculateLineChanges ==
    /\ lineChanges = NoResult
    /\ lineChanges' = calculateLineChanges(lineArgs.op, lineArgs.originalFiles,
                                           lineArgs.newFiles)
    /\ UNCHANGED <<applyVars, lineArgs, parseVars>>

NextLines == CalculateLineChanges

\* the contents of at most MaxText characters, and null
Texts == {NullText} \cup SeqsUpTo({"a", "b", "\n"}, MaxText)

LineOps == {Write(A, "w", "replace"), Delete(A), Rename(A, B)}

InitLines ==
    /\ ApplyIdle
    /\ ParseIdle
    /\ lineArgs \in [op : LineOps,
                     originalFiles : MapsOver(<<A>>, Texts),
                     newFiles : MapsOver(<<A>>, Texts)]
    /\ lineChanges = NoResult

SpecLines == InitLines /\ [][NextLines]_vars

----------------------------------------------------------------------------
(* Shorthands for the claims about calculateLineChanges *)

LineReturned == lineChanges # NoResult

OldContent == MapGet(lineArgs.originalFiles, lineArgs.op.path, NullText)
NewContent == MapGet(lineArgs.newFiles, lineArgs.op.path, NullText)

\* the lines of a content; a path without content has none
LinesOf(content) == IF content = NullText THEN <<>> ELSE SplitLines(content)

\* the length of a longest common subsequence, by its defining recurrence
RECURSIVE LongestCommon(_, _)
LongestCommon(a, b) ==
    IF a = <<>> \/ b = <<>> THEN 0
    ELSE IF Head(a) = Head(b) THEN 1 + LongestCommon(Tail(a), Tail(b))
    ELSE Max(LongestCommon(Tail(a), b), LongestCommon(a, Tail(b)))

ByLcs(old, new) ==
    LET L == LongestCommon(LinesOf(old), LinesOf(new))
        added == Len(LinesOf(new)) - L
        removed == Len(LinesOf(old)) - L
    IN  LineChanges(added, removed, added + removed)

----------------------------------------------------------------------------
(* C11: for a write, calculateLineChanges returns added = |new lines| - L,  *)
(* removed = |old lines| - L and difference = added + removed, L being the *)
(* length of a longest common subsequence of the old and the new content   *)
(* at the operation's path split on newline (content that is absent or     *)
(* null has no lines), unless the old content is the empty string or the   *)
(* new content is the empty string and the old one is present. With the    *)
(* empty string as the old content every line of the new content is added  *)
(* and none removed; with the empty string as the new content of a path    *)
(* that had content, every old line is removed and none added.             *)

EmptySide ==
    \/ OldContent = <<>>
    \/ NewContent = <<>> /\ OldContent # NullText

----------------------------------------------------------------------------
(* C12: for a delete, calculateLineChanges returns added = 0 and removed = *)
(* the number of lines of the original content at the operation's path     *)
(* split on newline, a trailing newline adding a trailing empty line; an   *)
(* original content that is absent, null or the empty string counts 0.     *)

C12_DeleteRemovesLines ==
    (LineReturned /\ lineArgs.op.type = "delete") =>
        /\ lineChanges.added = 0
        /\ lineChanges.removed =
               IF OldContent = <<>> THEN 0 ELSE Len(LinesOf(OldContent))

\* C12 as stated: the number of lines that splitting on newline gives
C12_Original ==
    (LineReturned /\ lineArgs.op.type = "delete") =>
        /\ lineChanges.added = 0
        /\ lineChanges.removed = Len(LinesOf(OldContent))

\* a delete of a file of two lines
C12_Witness ==
    /\ LineReturned
    /\ lineArgs.op.type = "delete"
    /\ OldContent = <<"a", "\n", "b">>
    /\ lineChanges.removed = 2

----------------------------------------------------------------------------
(* The parser: src/parser.ts (parseLLMResponse and what it calls)          *)
(*                                                                         *)
(* A text is a sequence of tokens. A token is a white-space character, a   *)
(* punctuation character, one of the punctuation runs listed below, which  *)
(* the parser only looks for as a whole, or a run of word characters (\w): *)
(* "src/a.ts" is <<"src", "/", "a", ".", "ts">>, and '//' is two tokens.   *)
(* The texts read never hold two word tokens side by side.                 *)

\* the three backquotes of a fence, which a TLA+ string cannot hold
Fence == "'''"
Quote == "\""

\* \s
IsSpace(tok) == tok \in {" ", "\t", "\n", "\r"}

\* [\r\n]
IsLineBreak(tok) == tok \in {"\n", "\r"}

Punctuation ==
    {Fence, Quote, "/", ".", ":", "-", ",", "{", "}", "#",
     "<<<<<<<", "=======", ">>>>>>>", "---", "+++", "@@"}

\* \w+
IsWord(tok) == ~IsSpace(tok) /\ tok \notin Punctuation

AllSpace(text) == \A i \in 1..Len(text) : IsSpace(text[i])

\* String.prototype.substring(from), positions counted from 1
From(text, from) == SubSeq(text, from, Len(text))

RECURSIVE TrimStart(_)
TrimStart(text) ==
    IF text # <<>> /\ IsSpace(Head(text)) THEN TrimStart(Tail(text)) ELSE text

RECURSIVE TrimEnd(_)
TrimEnd(text) ==
    IF text # <<>> /\ IsSpace(text[Len(text)])
    THEN TrimEnd(SubSeq(text, 1, Len(text) - 1))
    ELSE text

\* String.prototype.trim
Trim(text) == TrimEnd(TrimStart(text))

\* is `pattern` in `text` at position i
At(text, i, pattern) ==
    /\ i >= 1
    /\ i + Len(pattern) - 1 <= Len(text)
    /\ SubSeq(text, i, i + Len(pattern) - 1) = pattern

StartsWith(text, pattern) == At(text, 1, pattern)

EndsWith(text, pattern) == At(text, Len(text) - Len(pattern) + 1, pattern)

\* String.prototype.indexOf from a position, counted from 1; 0 when not found
IndexOf(text, pattern, from) ==
    LET found == {i \in from..Len(text) : At(text, i, pattern)}
    IN  IF found = {} THEN 0 ELSE CHOOSE i \in found : \A j \in found : i <= j

Includes(text, pattern) == IndexOf(text, pattern, 1) # 0

\* Array.prototype.join
RECURSIVE Join(_, _)
Join(parts, separator) ==
    IF parts = <<>> THEN <<>>
    ELSE IF Len(parts) = 1 THEN parts[1]
    ELSE parts[1] \o separator \o Join(Tail(parts), separator)

\* the longest prefix of tokens that are not white space: \S+
RECURSIVE NonSpaceRun(_)
NonSpaceRun(text) ==
    IF text = <<>> \/ IsSpace(Head(text)) THEN <<>>
    ELSE <<Head(text)>> \o NonSpaceRun(Tail(text))

\* split(/\s+/) of a trimmed text
RECURSIVE SplitWords(_)
SplitWords(text) ==
    IF text = <<>> THEN <<>>
    ELSE LET run == NonSpaceRun(text)
         IN  <<run>> \o SplitWords(TrimStart(From(text, Len(run) + 1)))

----------------------------------------------------------------------------
(* Constants and schemas *)

\* constants.ts
DELETE_FILE_MARKER ==
    <<"/", "/", "TODO", ":", " ", "delete", " ", "this", " ", "file">>
RENAME_FILE_OPERATION == <<"rename", "-", "file">>

\* PatchStrategySchema.safeParse of a string: the strategy, or Null on failure
PatchStrategySchema(str) ==
    IF str = <<"replace">> THEN "replace"
    ELSE IF str = <<"standard", "-", "diff">> THEN "standard-diff"
    ELSE IF str = <<"search", "-", "replace">> THEN "search-replace"
    ELSE Null

----------------------------------------------------------------------------
(* parseCodeBlockHeader, lines 301-338 *)

NoHeader == [ok |-> FALSE]
ParsedHeader(filePath, patchStrategy) ==
    [ok |-> TRUE, filePath |-> filePath, patchStrategy |-> patchStrategy]

NoMatch == [ok |-> FALSE]

\* (?:\s+(\S+))?$ : what follows the path up to the end of the header
StrategyPart(rest) ==
    IF rest = <<>> THEN [ok |-> TRUE, group |-> <<>>]
    ELSE LET word == TrimStart(rest)
         IN  IF IsSpace(Head(rest)) /\ word # <<>> /\ NonSpaceRun(word) = word
             THEN [ok |-> TRUE, group |-> word]
             ELSE NoMatch

\* "([^"]+)" and what follows it
QuotedPath(headerLine) ==
    LET close == IndexOf(headerLine, <<Quote>>, 2)
    IN  IF headerLine # <<>> /\ Head(headerLine) = Quote /\ close > 2
        THEN LET rest == StrategyPart(From(headerLine, close + 1))
             IN  IF rest.ok
                 THEN [ok |-> TRUE, path |-> SubSeq(headerLine, 2, close - 1),
                       strategy |-> rest.group]
                 ELSE NoMatch
        ELSE NoMatch

\* (\S+) and what follows it
UnquotedPath(headerLine) ==
    LET run == NonSpaceRun(headerLine)
        rest == StrategyPart(From(headerLine, Len(run) + 1))
    IN  IF run # <<>> /\ rest.ok
        THEN [ok |-> TRUE, path |-> run, strategy |-> rest.group]
        ELSE NoMatch

\* line 306: /^(?:"([^"]+)"|(\S+))(?:\s+(\S+))?$/
HeaderMatch(headerLine) ==
    IF QuotedPath(headerLine).ok THEN QuotedPath(headerLine)
    ELSE UnquotedPath(headerLine)

\* lines 308-323
UnmatchedHeader(headerLine) ==
    LET parts == SplitWords(headerLine)
        lastPart == parts[Len(parts)]
    IN  IF Len(parts) > 1 /\ PatchStrategySchema(lastPart) # Null
        THEN ParsedHeader(Join(SubSeq(parts, 1, Len(parts) - 1), <<" ">>),
                          PatchStrategySchema(lastPart))
        ELSE IF Trim(headerLine) # <<>>
        THEN ParsedHeader(Trim(headerLine), Null)
        ELSE NoHeader

\* lines 329-335: `return null; // Explicit but invalid strategy`
InvalidStrategy_Ignored(strategyStr) ==
    FALSE

InvalidStrategy(strategyStr) ==
    PatchStrategySchema(strategyStr) = Null

parseCodeBlockHeader(headerLine) ==
    LET match == HeaderMatch(headerLine)
    IN  IF ~match.ok THEN UnmatchedHeader(headerLine)
        ELSE IF match.path = <<>> THEN NoHeader
        ELSE IF match.strategy # <<>>
        THEN IF InvalidStrategy(match.strategy) THEN NoHeader
             ELSE ParsedHeader(match.path, PatchStrategySchema(match.strategy))
        ELSE ParsedHeader(match.path, Null)

----------------------------------------------------------------------------
(* inferPatchStrategy, lines 340-345 *)

\* the longest prefix of white space: \s*
RECURSIVE SpaceRun(_)
SpaceRun(text) ==
    IF text = <<>> \/ ~IsSpace(Head(text)) THEN <<>>
    ELSE <<Head(text)>> \o SpaceRun(Tail(text))

\* \s*$ under the m flag: white space up to the end of the text or of a line
EndsLine(rest) ==
    \/ AllSpace(rest)
    \/ \E j \in 1..Len(SpaceRun(rest)) : IsLineBreak(rest[j])

\* line 342: /^<<<<<<< SEARCH\s*$/m.test(content)
HasSearchLine(content) ==
    \E i \in 1..Len(content) :
        /\ i = 1 \/ IsLineBreak(content[i - 1])
        /\ At(content, i, <<"<<<<<<<", " ", "SEARCH">>)
        /\ EndsLine(From(content, i + 3))

\* mutant of inferPatchStrategy: the unified diff is looked for first
inferPatchStrategy_DiffFirst(content, providedStrategy) ==
    IF providedStrategy # Null THEN providedStrategy
    ELSE IF /\ StartsWith(content, <<"---", " ">>)
            /\ Includes(content, <<"+++", " ">>)
            /\ Includes(content, <<"@@">>)
    THEN "standard-diff"
    ELSE IF HasSearchLine(content) /\ Includes(content, <<">>>>>>>", " ", "REPLACE">>)
    THEN "search-replace"
    ELSE "replace"

\* lines 340-345
inferPatchStrategy(content, providedStrategy) ==
    IF providedStrategy # Null THEN providedStrategy
    ELSE IF HasSearchLine(content) /\ Includes(content, <<">>>>>>>", " ", "REPLACE">>)
    THEN "search-replace"
    ELSE IF /\ StartsWith(content, <<"---", " ">>)
            /\ Includes(content, <<"+++", " ">>)
            /\ Includes(content, <<"@@">>)
    THEN "standard-diff"
    ELSE "replace"

----------------------------------------------------------------------------
(* parseCodeBlock, lines 394-483 *)

\* replace(/^\r?\n/, '')
StripLeadingNewline(content) ==
    IF StartsWith(content, <<"\r", "\n">>) THEN From(content, 3)
    ELSE IF StartsWith(content, <<"\n">>) THEN From(content, 2)
    ELSE content

\* replace(/\r?\n$/, '')
StripTrailingNewline(content) ==
    IF EndsWith(content, <<"\r", "\n">>) THEN SubSeq(content, 1, Len(content) - 2)
    ELSE IF EndsWith(content, <<"\n">>) THEN SubSeq(content, 1, Len(content) - 1)
    ELSE content

\* replace(/^\/\/ START\s*\r?\n/, ''): \s* is greedy, so up to the last newline
\* of the white space that follows the marker
StripStartMarker(content) ==
    LET marker == <<"/", "/", " ", "START">>
        run == SpaceRun(From(content, Len(marker) + 1))
        newlines == {j \in 1..Len(run) : run[j] = "\n"}
    IN  IF StartsWith(content, marker) /\ newlines # {}
        THEN From(content, Len(marker) + 1 +
                           (CHOOSE j \in newlines : \A k \in newlines : k <= j))
        ELSE content

\* replace(/\r?\n\/\/ END\s*$/, '')
StripEndMarker(content) ==
    LET marker == <<"\n", "/", "/", " ", "END">>
        found == {i \in 1..Len(content) :
                      /\ At(content, i, marker)
                      /\ AllSpace(From(content, i + Len(marker)))}
    IN  IF found = {} THEN content
        ELSE LET i == CHOOSE k \in found : \A j \in found : k <= j
             IN  IF i > 1 /\ content[i - 1] = "\r"
                 THEN SubSeq(content, 1, i - 2)
                 ELSE SubSeq(content, 1, i - 1)

\* lines 465-473
CleanContent(content, patchStrategy) ==
    IF patchStrategy = "replace"
    THEN StripTrailingNewline(StripLeadingNewline(
             StripEndMarker(StripStartMarker(content))))
    ELSE content

\* lines 442-445
CleanContentLenient(content, patchStrategy) ==
    IF patchStrategy = "replace"
    THEN StripTrailingNewline(StripLeadingNewline(content))
    ELSE content

\* line 419: JSON.parse and the {from, to} schema, both strings of at least
\* one character.  The one spelling of the object the texts use is read:
\* {"from":"...","to":"..."} with white space around it; any other body fails.
JsonFromTo(content) ==
    LET text == Trim(content)
        open == <<"{", Quote, "from", Quote, ":", Quote>>
        middle == <<Quote, ",", Quote, "to", Quote, ":", Quote>>
        close == <<Quote, "}">>
        fromEnd == IndexOf(text, <<Quote>>, Len(open) + 1)
        toStart == fromEnd + Len(middle)
        toEnd == IndexOf(text, <<Quote>>, toStart)
    IN  IF /\ StartsWith(text, open)
           /\ fromEnd > Len(open) + 1
           /\ At(text, fromEnd, middle)
           /\ toEnd > toStart
           /\ From(text, toEnd) = close
        THEN [ok |-> TRUE,
              from |-> SubSeq(text, Len(open) + 1, fromEnd - 1),
              to |-> SubSeq(text, toStart, toEnd - 1)]
        ELSE [ok |-> FALSE]

NoOperation == [ok |-> FALSE]
Classified(operation, fullMatch) ==
    [ok |-> TRUE, operation |-> operation, fullMatch |-> fullMatch]

\* lines 404-409: what follows the first '//'
AfterComment_Kept(headerLine) ==
    headerLine

AfterComment(headerLine) ==
    LET commentIndex == IndexOf(headerLine, <<"/", "/">>, 1)
    IN  IF commentIndex # 0 THEN Trim(From(headerLine, commentIndex + 2))
        ELSE headerLine

\* lines 411-413
AfterLeadingComment(headerLine) ==
    IF StartsWith(headerLine, <<"/", "/">>) THEN Trim(From(headerLine, 3))
    ELSE headerLine

\* lines 427-453: parseCodeBlockHeader gave null
LenientHeader(headerLine, content, fullMatch) ==
    LET parts == SplitWords(headerLine)
        lastPart == parts[Len(parts)]
        patchStrategy == inferPatchStrategy(content, Null)
    IN  IF Len(parts) > 1 /\ PatchStrategySchema(lastPart) = Null
        THEN IF Trim(content) = DELETE_FILE_MARKER
             THEN Classified(Delete(headerLine), fullMatch)
             ELSE Classified(Write(headerLine,
                                   CleanContentLenient(content, patchStrategy),
                                   patchStrategy), fullMatch)
        ELSE NoOperation

\* match is [fullMatch, rawHeader, rawContent]
parseCodeBlock(match) ==
    LET content == match.rawContent
        headerLine == AfterLeadingComment(AfterComment(Trim(match.rawHeader)))
        parsedHeader == parseCodeBlockHeader(headerLine)
    IN  IF headerLine = <<>> THEN NoOperation
        ELSE IF headerLine = RENAME_FILE_OPERATION
        THEN LET json == JsonFromTo(content)
             IN  IF json.ok
                 THEN Classified(Rename(json.from, json.to), match.fullMatch)
                 ELSE NoOperation
        ELSE IF ~parsedHeader.ok
        THEN LenientHeader(headerLine, content, match.fullMatch)
        ELSE IF Trim(content) = DELETE_FILE_MARKER
        THEN Classified(Delete(parsedHeader.filePath), match.fullMatch)
        ELSE LET patchStrategy ==
                     inferPatchStrategy(content, parsedHeader.patchStrategy)
             IN  Classified(Write(parsedHeader.filePath,
                                  CleanContent(content, patchStrategy),
                                  patchStrategy), match.fullMatch)

----------------------------------------------------------------------------
(* yaml.load and ControlYamlSchema, lines 354-355 and 380-381               *)
(*                                                                         *)
(* js-yaml is not part of the repository. What is read here is the block   *)
(* mapping the control block is written in: lines `key: scalar`, a line    *)
(* `key:` followed by lines `- scalar` or `- key: scalar`, and blank       *)
(* lines, indentation aside. Every other line makes the load throw, as    *)
(* does a key given twice.                                                 *)

\* scalars that YAML reads as a number, not as a string
YamlNumbers == {"0", "42"}

\* what the uuid check of zod accepts
Uuids ==
    {<<"123e4567", "-", "e89b", "-", "12d3", "-", "a456", "-", "426614174000">>}

\* a plain scalar on one line
IsPlainScalar(text) ==
    /\ text # <<>>
    /\ IsWord(Head(text))
    /\ \A i \in 1..Len(text) : IsWord(text[i]) \/ text[i] \in {" ", ".", "/", "-"}

YamlString(text) == [kind |-> "string", text |-> text]
YamlNumber(text) == [kind |-> "number", text |-> text]
YamlNull == [kind |-> "null"]
YamlList(items) == [kind |-> "list", items |-> items]
YamlPair(key, value) == [kind |-> "record", key |-> key, value |-> value]

\* a double-quoted scalar on one line, without escapes: "" is the empty string
IsQuotedScalar(text) ==
    /\ Len(text) >= 2
    /\ Head(text) = Quote
    /\ text[Len(text)] = Quote
    /\ \A i \in 2..(Len(text) - 1) : text[i] \notin {Quote, "\\", "\n", "\r"}

IsScalar(text) == IsPlainScalar(text) \/ IsQuotedScalar(text)

YamlScalar(text) ==
    IF IsQuotedScalar(text) THEN YamlString(SubSeq(text, 2, Len(text) - 1))
    ELSE IF Len(text) = 1 /\ text[1] \in YamlNumbers THEN YamlNumber(text)
    ELSE YamlString(text)

\* `key: scalar`
IsPairLine(line) ==
    /\ Len(line) >= 4
    /\ IsWord(line[1])
    /\ line[2] = ":"
    /\ line[3] = " "
    /\ IsScalar(From(line, 4))

\* `key:`
IsKeyLine(line) ==
    /\ Len(line) = 2
    /\ IsWord(line[1])
    /\ line[2] = ":"

\* `- scalar` or `- key: scalar`
IsItemLine(line) ==
    /\ Len(line) >= 3
    /\ line[1] = "-"
    /\ line[2] = " "
    /\ IsScalar(From(line, 3)) \/ IsPairLine(From(line, 3))

YamlThrows == [ok |-> FALSE]
YamlDocument(entries) == [ok |-> TRUE, entries |-> entries]

YamlItem(text) ==
    IF IsPairLine(text) THEN YamlPair(text[1], YamlScalar(From(text, 4)))
    ELSE YamlScalar(text)

\* the mapping read from the lines from position i on; `entries` is a Map
RECURSIVE YamlLines(_, _, _)
YamlLines(lines, i, entries) ==
    IF i > Len(lines) THEN YamlDocument(entries)
    ELSE LET line == Trim(lines[i])
             last == entries[Len(entries)]
         IN  IF line = <<>> THEN YamlLines(lines, i + 1, entries)
             ELSE IF IsPairLine(line) /\ ~MapHas(entries, line[1])
             THEN YamlLines(lines, i + 1,
                            MapSet(entries, line[1], YamlScalar(From(line, 4))))
             ELSE IF IsKeyLine(line) /\ ~MapHas(entries, line[1])
             THEN YamlLines(lines, i + 1, MapSet(entries, line[1], YamlNull))
             ELSE IF /\ IsItemLine(line)
                     /\ entries # <<>>
                     /\ last.v.kind \in {"null", "list"}
             THEN LET items == IF last.v.kind = "null" THEN <<>> ELSE last.v.items
                  IN  YamlLines(lines, i + 1,
                                MapSet(entries, last.k,
                                       YamlList(Append(items, YamlItem(From(line, 3))))))
             ELSE YamlThrows

\* yaml.load
YamlLoad(text) == YamlLines(SplitLines(text), 1, <<>>)

NoValue == [kind |-> "undefined"]

IsStringList(value) ==
    /\ value.kind = "list"
    /\ \A i \in 1..Len(value.items) : value.items[i].kind = "string"

IsRecordList(value) ==
    /\ value.kind = "list"
    /\ \A i \in 1..Len(value.items) :
           /\ value.items[i].kind = "record"
           /\ value.items[i].value.kind = "string"

\* uuid: z.string().uuid()
ValidUuid(value) ==
    value.kind = "string" /\ value.text \in Uuids

\* types.ts, ControlYamlSchema: is the loaded value a control block
ControlYamlValid(entries) ==
    LET projectId == MapGet(entries, "projectId", NoValue)
        uuid == MapGet(entries, "uuid", NoValue)
        changeSummary == MapGet(entries, "changeSummary", NoValue)
        gitCommitMsg == MapGet(entries, "gitCommitMsg", NoValue)
        promptSummary == MapGet(entries, "promptSummary", NoValue)
    IN  /\ projectId.kind = "string"
        /\ ValidUuid(uuid)
        /\ changeSummary = NoValue \/ IsRecordList(changeSummary)
        /\ gitCommitMsg = NoValue \/ gitCommitMsg.kind = "string"
                                  \/ IsStringList(gitCommitMsg)
        /\ promptSummary = NoValue \/ promptSummary.kind = "string"

ControlKeys == {"projectId", "uuid", "changeSummary", "gitCommitMsg", "promptSummary"}

NoControl == [ok |-> FALSE]

\* yaml.load followed by ControlYamlSchema.parse: the control, made of the
\* keys of the schema, or NoControl when one of the two throws
ControlYamlSchema(text) ==
    LET loaded == YamlLoad(text)
    IN  IF loaded.ok /\ loaded.entries # <<>> /\ ControlYamlValid(loaded.entries)
        THEN [ok |-> TRUE,
              value |-> SelectSeq(loaded.entries, LAMBDA e : e.k \in ControlKeys)]
        ELSE NoControl

----------------------------------------------------------------------------
(* extractAndParseYaml, lines 347-392 *)

\* the info strings /yaml|yml/i matches
YamlTags == {"yaml", "yml", "YAML", "YML", "Yaml", "Yml"}

\* /```\s*(?:yaml|yml)[\r\n]([\s\S]+?)```/ at position p
YamlBlockAt(text, p) ==
    LET tag == p + 1 + Len(SpaceRun(From(text, p + 1)))
        start == tag + 2
        close == IndexOf(text, <<Fence>>, start + 1)
    IN  IF /\ p <= Len(text)
           /\ text[p] = Fence
           /\ tag + 1 <= Len(text)
           /\ text[tag] \in YamlTags
           /\ IsLineBreak(text[tag + 1])
           /\ close # 0
        THEN [ok |-> TRUE, index |-> p, end |-> close + 1,
              content |-> SubSeq(text, start, close - 1)]
        ELSE NoMatch

\* matchAll: the matches from position `from` on, left to right, disjoint
RECURSIVE YamlBlocks(_, _)
YamlBlocks(text, from) ==
    LET found == {p \in from..Len(text) : YamlBlockAt(text, p).ok}
    IN  IF found = {} THEN <<>>
        ELSE LET p == CHOOSE q \in found : \A r \in found : q <= r
                 match == YamlBlockAt(text, p)
             IN  <<match>> \o YamlBlocks(text, match.end)

Extracted(parsedControl, text) ==
    [control |-> parsedControl, textWithoutYaml |-> text]

\* line 369
searchLimit_None(lines) ==
    0

searchLimit(lines) ==
    Max(0, Len(lines) - 20)

\* line 371
IsAnchor(line) == StartsWith(Trim(line), <<"projectId", ":">>)

\* lines 365-391: the bare block at the end; line i of the code is line i + 1
NonFenced(text) ==
    LET lines == SplitLines(Trim(text))
        anchors == {i \in (searchLimit(lines) + 1)..Len(lines) : IsAnchor(lines[i])}
    IN  IF anchors = {} THEN Extracted(NoControl, text)
        ELSE LET yamlStartIndex == CHOOSE i \in anchors : \A j \in anchors : j <= i
                 yamlText == Join(SubSeq(lines, yamlStartIndex, Len(lines)), <<"\n">>)
                 parsedControl == ControlYamlSchema(yamlText)
             IN  IF parsedControl.ok
                 THEN Extracted(parsedControl,
                                Trim(Join(SubSeq(lines, 1, yamlStartIndex - 1),
                                          <<"\n">>)))
                 ELSE Extracted(NoControl, text)

\* line 357
WithoutMatch_Kept(text, match) ==
    text

WithoutMatch(text, match) ==
    SubSeq(text, 1, match.index - 1) \o From(text, match.end)

\* line 352
LastOf_First(matches) ==
    matches[1]

LastOf(matches) ==
    matches[Len(matches)]

extractAndParseYaml(text) ==
    LET yamlBlockMatches == YamlBlocks(text, 1)
        lastMatch == LastOf(yamlBlockMatches)
        parsedControl == ControlYamlSchema(lastMatch.content)
    IN  IF Len(yamlBlockMatches) > 0 /\ parsedControl.ok
        THEN Extracted(parsedControl, Trim(WithoutMatch(text, lastMatch)))
        ELSE NonFenced(text)

----------------------------------------------------------------------------
(* CODE_BLOCK_REGEX, line 294:                                             *)
(*   /```(?:\w+)?\s*([^\r\n]*?)\r?\n([\s\S]*?)```/g                        *)

\* the longest prefix of word tokens: \w+
RECURSIVE WordRun(_)
WordRun(text) ==
    IF text = <<>> \/ ~IsWord(Head(text)) THEN <<>>
    ELSE <<Head(text)>> \o WordRun(Tail(text))

\* ([^\r\n]*?)\r?\n([\s\S]*?)``` from position `header` on: the header runs to
\* the first line break, which must be \n or \r\n, the content to the next fence
RestOfBlock(text, p, header) ==
    LET breaks == {i \in header..Len(text) : IsLineBreak(text[i])}
        break == CHOOSE i \in breaks : \A j \in breaks : i <= j
        content == IF text[break] = "\n" THEN break + 1 ELSE break + 2
        close == IndexOf(text, <<Fence>>, content)
    IN  IF /\ breaks # {}
           /\ text[break] = "\n" \/ At(text, break, <<"\r", "\n">>)
           /\ close # 0
        THEN [ok |-> TRUE, index |-> p, end |-> close + 1,
              fullMatch |-> SubSeq(text, p, close),
              rawHeader |-> SubSeq(text, header, break - 1),
              rawContent |-> SubSeq(text, content, close - 1)]
        ELSE NoMatch

\* the match at position p: \w+ takes the info string, \s* is greedy and gives
\* white space back, one character at a time, while the rest does not match
CodeBlockAt(text, p) ==
    LET after == p + 1 + Len(WordRun(From(text, p + 1)))
        spaces == Len(SpaceRun(From(text, after)))
        matching == {s \in 0..spaces : RestOfBlock(text, p, after + s).ok}
    IN  IF p <= Len(text) /\ text[p] = Fence /\ matching # {}
        THEN RestOfBlock(text, p, after +
                 (CHOOSE s \in matching : \A r \in matching : r <= s))
        ELSE NoMatch

\* CODE_BLOCK_REGEX.exec(text) with lastIndex = from
Exec(text, from) ==
    LET found == {p \in from..Len(text) : CodeBlockAt(text, p).ok}
    IN  IF found = {} THEN NoMatch
        ELSE CodeBlockAt(text, CHOOSE p \in found : \A q \in found : p <= q)

----------------------------------------------------------------------------
(* parseLLMResponse, lines 485-520 *)

NullResponse == [kind |-> "null"]
Response(parsedControl, ops, reasoning) ==
    [kind |-> "response", control |-> parsedControl, operations |-> ops,
     reasoning |-> reasoning]

\* String.prototype.replace(block, ''): the first occurrence
RemoveFirst(text, block) ==
    LET i == IndexOf(text, block, 1)
    IN  IF i = 0 \/ block = <<>> THEN text
        ELSE SubSeq(text, 1, i - 1) \o From(text, i + Len(block))

\* lines 508-511
RECURSIVE RemoveBlocks(_, _)
RemoveBlocks(text, blocks) ==
    IF blocks = <<>> THEN text
    ELSE RemoveBlocks(RemoveFirst(text, Head(blocks)), Tail(blocks))

\* line 512
Reasoning(reasoningText) ==
    LET lines == SplitLines(reasoningText)
        trimmed == [i \in 1..Len(lines) |-> Trim(lines[i])]
    IN  SelectSeq(trimmed, LAMBDA line : line # <<>>)

\* FileOperationSchema
IsFileOperation(op) ==
    \/ op.type = "write" /\ op.patchStrategy \in
           {"replace", "standard-diff", "search-replace"}
    \/ op.type = "delete"
    \/ op.type = "rename"

\* lines 514-519: ParsedLLMResponseSchema.parse
ParsedLLMResponseSchema(response) ==
    IF /\ ControlYamlValid(response.control)
       /\ \A i \in 1..Len(response.operations) :
              IsFileOperation(response.operations[i])
    THEN response
    ELSE NullResponse

\* lines 486-494
Extract ==
    /\ ppc = "start"
    /\ LET extracted == extractAndParseYaml(rawText)
       IN  /\ control' = extracted.control
           /\ textWithoutYaml' = extracted.textWithoutYaml
           /\ IF ~extracted.control.ok
              THEN parsed' = NullResponse /\ ppc' = "done"
              ELSE parsed' = parsed /\ ppc' = "scan"
    /\ UNCHANGED <<applyVars, lineVars, rawText, lastIndex, parsedOps,
                   matchedBlocks, scanned>>

\* lines 499-500
Push_Front(ops, op) ==
    <<op>> \o ops

Push(ops, op) ==
    Append(ops, op)

\* lines 496-502, one iteration
ExecBlock ==
    /\ ppc = "scan"
    /\ Exec(textWithoutYaml, lastIndex).ok
    /\ LET match == Exec(textWithoutYaml, lastIndex)
           classified == parseCodeBlock(match)
       IN  /\ lastIndex' = match.end
           /\ scanned' = Append(scanned, [index |-> match.index,
                                          rawHeader |-> match.rawHeader,
                                          rawContent |-> match.rawContent,
                                          result |-> classified])
           /\ IF classified.ok
              THEN /\ parsedOps' = Push(parsedOps, classified.operation)
                   /\ matchedBlocks' = Append(matchedBlocks, classified.fullMatch)
              ELSE UNCHANGED <<parsedOps, matchedBlocks>>
    /\ UNCHANGED <<applyVars, lineVars, rawText, control, textWithoutYaml,
                   parsed, ppc>>

\* line 504
NoOperations_Never(ops) ==
    FALSE

NoOperations(ops) ==
    Len(ops) = 0

\* lines 496 (exec gives null) and 504-519
Respond ==
    /\ ppc = "scan"
    /\ ~Exec(textWithoutYaml, lastIndex).ok
    /\ parsed' =
           IF NoOperations(parsedOps) THEN NullResponse
           ELSE ParsedLLMResponseSchema(
                    Response(control.value, parsedOps,
                             Reasoning(RemoveBlocks(textWithoutYaml, matchedBlocks))))
    /\ ppc' = "done"
    /\ UNCHANGED <<applyVars, lineVars, rawText, control, textWithoutYaml,
                   lastIndex, parsedOps, matchedBlocks, scanned>>

NextParse ==
    \/ Extract
    \/ ExecBlock
    \/ Respond

InitParse(texts) ==
    /\ ApplyIdle
    /\ LineIdle
    /\ rawText \in texts
    /\ control = NoResult
    /\ textWithoutYaml = <<>>
    /\ lastIndex = 1
    /\ parsedOps = <<>>
    /\ matchedBlocks = <<>>
    /\ scanned = <<>>
    /\ parsed = NoResult
    /\ ppc = "start"

----------------------------------------------------------------------------
(* Texts *)

MaxSegments == 3
MaxItems == 19

SrcA == <<"src", "/", "a", ".", "ts">>
MyFile == <<"my", " ", "file", ".", "ts">>
BTs == <<"b", ".", "ts">>
StandardDiff == <<"standard", "-", "diff">>
SearchReplace == <<"search", "-", "replace">>
AUuid == <<"123e4567", "-", "e89b", "-", "12d3", "-", "a456", "-", "426614174000">>

Quoted(path) == <<Quote>> \o path \o <<Quote>>

\* a fenced block: the header on the line of the opening fence
Block(header, body) ==
    <<Fence, " ">> \o header \o <<"\n">> \o body \o <<Fence, "\n">>

ControlLines(projectId, uuid) ==
    <<"projectId", ":", " ", projectId, "\n", "uuid", ":", " ">> \o uuid \o <<"\n">>

FencedYaml(tag, body) == <<Fence, tag, "\n">> \o body \o <<Fence, "\n">>

\* the headers of blocks
Headers ==
    {SrcA,
     SrcA \o <<" ">> \o StandardDiff,
     Quoted(MyFile),
     Quoted(MyFile) \o <<" ">> \o SearchReplace,
     MyFile,
     MyFile \o <<" ">> \o SearchReplace,
     <<"/", "/", " ">> \o SrcA,
     <<"ts", " ", "/", "/", " ">> \o Quoted(SrcA) \o <<" ">> \o StandardDiff,
     SrcA \o <<" ", "bogus">>,
     Quoted(MyFile) \o <<" ", "bogus">>,
     SrcA \o <<" ", " ", "replace">>,
     RENAME_FILE_OPERATION,
     <<"/", "/">>}

DiffBody == <<"---", " ", "a", "\n", "+++", " ", "b", "\n", "@@", "\n">>
SearchBody ==
    <<"<<<<<<<", " ", "SEARCH", "\n", "x", "\n", "=======", "\n", "y", "\n",
      ">>>>>>>", " ", "REPLACE", "\n">>
RenameBody ==
    <<"{", Quote, "from", Quote, ":", Quote>> \o SrcA
      \o <<Quote, ",", Quote, "to", Quote, ":", Quote>> \o BTs
      \o <<Quote, "}", "\n">>

\* the bodies of blocks
Bodies ==
    {<<>>,
     <<"x">>,
     <<"x", "\n">>,
     <<"x", "\n", "\n">>,
     <<"\n", "x", "\n">>,
     <<"\n", "\n", "x", "\n">>,
     <<"\r", "\n", "x", "\r", "\n">>,
     <<" ", "x", " ", "\n">>,
     <<"/", "/", " ", "START", "\n", "x", "\n", "/", "/", " ", "END", "\n">>,
     DiffBody,
     <<"\n">> \o DiffBody,
     SearchBody,
     <<"\n">> \o SearchBody,
     DiffBody \o SearchBody,
     <<"x", " ">> \o SearchBody,
     <<"<<<<<<<", " ", "SEARCH", " ", "\n", ">>>>>>>", " ", "REPLACE">>,
     <<"<<<<<<<", " ", "SEARCH", "\n", "x", "\n">>,
     DELETE_FILE_MARKER \o <<"\n">>,
     RenameBody,
     <<"{", "}", "\n">>}

\* one block of every header and body, followed by a fenced control block
BlockTexts ==
    {Block(header, body) \o FencedYaml("yaml", ControlLines("p1", AUuid)) :
         header \in Headers, body \in Bodies}

\* the pieces messages are made of
Segments ==
    {<<"hello", "\n">>,
     <<Fence, "ts", " ", "/", "/", " ">> \o SrcA \o <<"\n", "x", "\n", Fence, "\n">>,
     Block(RENAME_FILE_OPERATION, <<"{", "}", "\n">>),
     Block(RENAME_FILE_OPERATION, <<"{", "}", "\n">>)
         \o Block(BTs, DELETE_FILE_MARKER \o <<"\n">>),
     FencedYaml("yaml", ControlLines("p1", AUuid)),
     FencedYaml("YML", ControlLines("p2", AUuid)),
     FencedYaml("yaml", <<"projectId", ":", " ", "p1", "\n">>),
     ControlLines("p3", AUuid)}

RECURSIVE Concat(_)
Concat(texts) ==
    IF texts = <<>> THEN <<>> ELSE Head(texts) \o Concat(Tail(texts))

SegmentTexts == {Concat(pieces) : pieces \in SeqsUpTo(Segments, MaxSegments)}

RECURSIVE Repeat(_, _)
Repeat(text, n) == IF n = 0 THEN <<>> ELSE text \o Repeat(text, n - 1)

\* a bare control block whose commit message is a list of n lines
LongControl(uuid, n) ==
    ControlLines("p3", uuid) \o <<"gitCommitMsg", ":", "\n">>
        \o Repeat(<<" ", " ", "-", " ", "m", "\n">>, n)

\* bare control blocks of 3 to 3 + MaxItems lines at the end of a message
TailTexts ==
    {prefix \o LongControl(uuid, n) :
         prefix \in {<<>>, <<"hello", "\n">>, Block(SrcA, <<"x", "\n">>)},
         uuid \in {AUuid, <<"nope">>},
         n \in 0..MaxItems}

\* candidate control blocks: the projectId and the uuid a message may give
ProjectIds ==
    {<<" ", "p1">>, <<" ", Quote, "p1", Quote>>, <<" ", Quote, Quote>>, <<>>,
     <<" ", "42">>}

UuidValues ==
    {<<" ">> \o AUuid, <<" ", Quote>> \o AUuid \o <<Quote>>, <<" ", "nope">>,
     <<" ", "123e4567">>, <<" ", Quote, Quote>>, <<>>, <<" ", "42">>}

Candidate(projectId, uuid) ==
    <<"projectId", ":">> \o projectId \o <<"\n", "uuid", ":">> \o uuid \o <<"\n">>

\* one write block, followed by a candidate control block, fenced or bare
ControlTexts ==
    {Block(SrcA, <<"x", "\n">>) \o wrapped :
         wrapped \in UNION {{FencedYaml("yaml", Candidate(projectId, uuid)),
                             Candidate(projectId, uuid)} :
                                projectId \in ProjectIds, uuid \in UuidValues}}

InitParser ==
    InitParse(SegmentTexts \cup BlockTexts \cup TailTexts \cup ControlTexts)

SpecParser == InitParser /\ [][NextParse]_vars

----------------------------------------------------------------------------
(* Shorthands for the claims about the parser *)

ParseDone == ppc = "done"
ReturnedNull == ParseDone /\ parsed = NullResponse
ReturnedResponse == ParseDone /\ parsed # NullResponse

\* the blocks that gave an operation, in the order they were matched
Kept == SelectSeq(scanned, LAMBDA block : block.result.ok)
Dropped == SelectSeq(scanned, LAMBDA block : ~block.result.ok)

----------------------------------------------------------------------------
(* C13: parseLLMResponse returns null exactly when no schema-valid control *)
(* block was found or, after all code blocks were scanned, no block gave   *)
(* an operation; in every other case it returns a response, with the       *)
(* control found and the operations of the blocks that gave one, whatever  *)
(* blocks were dropped.                                                    *)

C13_NullOnlyWithoutControlOrOperations ==
    ParseDone =>
        /\ parsed = NullResponse <=> (~control.ok \/ Len(Kept) = 0)
        /\ parsed # NullResponse =>
               /\ parsed.control = control.value
               /\ Len(parsed.operations) = Len(Kept)

\* a response although one block of the message was dropped
C13_Witness ==
    /\ ReturnedResponse
    /\ Len(Dropped) > 0
    /\ Len(parsed.operations) > 0

----------------------------------------------------------------------------
(* C14: the operations of a parsed response are in the textual order of    *)
(* their code blocks: blocks are matched at increasing positions of the    *)
(* text, and the operations are those of the blocks that gave one, in that *)
(* order, dropped blocks aside.                                            *)

C14_TextualOrder ==
    /\ \A i, j \in 1..Len(scanned) :
           i < j => scanned[i].index < scanned[j].index
    /\ \A i \in 1..Len(scanned) :
           At(textWithoutYaml, scanned[i].index, <<Fence>>)
    /\ parsedOps = [i \in 1..Len(Kept) |-> Kept[i].result.operation]
    /\ ReturnedResponse => parsed.operations = parsedOps

\* two operations with a dropped block between their blocks
C14_Witness ==
    /\ ReturnedResponse
    /\ Len(scanned) = 3
    /\ scanned[1].result.ok
    /\ ~scanned[2].result.ok
    /\ scanned[3].result.ok
    /\ parsed.operations = <<Write(SrcA, <<"x">>, "replace"), Delete(BTs)>>

----------------------------------------------------------------------------
(* Shorthands for the claims about the control block *)

\* the fenced YAML blocks of the message
FencedBlocks == YamlBlocks(rawText, 1)

LastFenced == FencedBlocks[Len(FencedBlocks)]

IsControl(block) == ControlYamlSchema(block.content).ok

Extraction == ppc # "start"

\* the lines of the trimmed message and, of its last 20, those that start
\* with projectId:
TrimmedLines == SplitLines(Trim(rawText))

LateAnchors ==
    {i \in 1..Len(TrimmedLines) :
         /\ i > Len(TrimmedLines) - 20
         /\ StartsWith(Trim(TrimmedLines[i]), <<"projectId", ":">>)}

LastAnchor == CHOOSE i \in LateAnchors : \A j \in LateAnchors : j <= i

\* the message from line i to its end, and before line i
TailFrom(i) == Join(SubSeq(TrimmedLines, i, Len(TrimmedLines)), <<"\n">>)
TextBefore(i) == Join(SubSeq(TrimmedLines, 1, i - 1), <<"\n">>)

\* the bare block at the end of the message is a control block
BareControl ==
    /\ LateAnchors # {}
    /\ ControlYamlSchema(TailFrom(LastAnchor)).ok

----------------------------------------------------------------------------
(* C15: when the text holds several fenced YAML blocks and the last one is *)
(* a schema-valid control block, the control returned is that of the last  *)
(* block, the residual text is the text without exactly that fenced        *)
(* region, trimmed, and every earlier YAML block is still in it.           *)

C15_LastFencedWins ==
    (Extraction /\ Len(FencedBlocks) >= 2 /\ IsControl(LastFenced)) =>
        /\ control = ControlYamlSchema(LastFenced.content)
        /\ textWithoutYaml =
               Trim(SubSeq(rawText, 1, LastFenced.index - 1)
                    \o From(rawText, LastFenced.end))
        /\ \A i \in 1..(Len(FencedBlocks) - 1) :
               Includes(textWithoutYaml,
                        SubSeq(rawText, FencedBlocks[i].index,
                               FencedBlocks[i].end - 1))

\* two valid control blocks with different project ids: the second one wins
C15_Witness ==
    /\ Extraction
    /\ Len(FencedBlocks) = 2
    /\ IsControl(FencedBlocks[1])
    /\ IsControl(FencedBlocks[2])
    /\ ControlYamlSchema(FencedBlocks[1].content) # control
    /\ MapGet(control.value, "projectId", NoValue) = YamlString(<<"p2">>)

----------------------------------------------------------------------------
(* C16: when the text holds several fenced YAML blocks of which an earlier *)
(* one is a valid control block and the last one is not, parseLLMResponse  *)
(* returns null, unless the text from the last line that starts with       *)
(* projectId: among the last 20 lines of the trimmed text to the end of    *)
(* the text is a schema-valid control block: then that bare block is the   *)
(* control, the fenced blocks stay in the residual text, and the result is *)
(* null only if no block gave an operation.                                *)

EarlierOnly ==
    /\ Len(FencedBlocks) >= 2
    /\ ~IsControl(LastFenced)
    /\ \E i \in 1..(Len(FencedBlocks) - 1) : IsControl(FencedBlocks[i])

C16_EarlierFencedIgnored ==
    (ParseDone /\ EarlierOnly) =>
        IF BareControl
        THEN /\ control = ControlYamlSchema(TailFrom(LastAnchor))
             /\ textWithoutYaml = Trim(TextBefore(LastAnchor))
             /\ parsed = NullResponse <=> Len(Kept) = 0
        ELSE parsed = NullResponse /\ ~control.ok

\* C16 as stated: null whenever only an earlier fenced block is valid
C16_Original ==
    (ParseDone /\ EarlierOnly) => parsed = NullResponse

\* a valid fenced block followed by an invalid one, and nothing else
C16_Witness ==
    /\ ReturnedNull
    /\ EarlierOnly
    /\ ~BareControl
    /\ IsControl(FencedBlocks[1])

----------------------------------------------------------------------------
(* C17: when no fenced YAML block is taken as the control, the extractor   *)
(* looks at the last 20 lines of the trimmed text only, for lines whose    *)
(* trimmed form starts with projectId:. If there is one and the text from  *)
(* the last of them to the end is a schema-valid control block, that is    *)
(* the control and the residual is the trimmed text before that line; in   *)
(* every other case, so also when the only such line is more than 20       *)
(* lines from the end, there is no control and the residual is the raw     *)
(* text.                                                                   *)

NoFencedControl == Len(FencedBlocks) = 0 \/ ~IsControl(LastFenced)

C17_BareBlockWindow ==
    (Extraction /\ NoFencedControl) =>
        IF BareControl
        THEN /\ control = ControlYamlSchema(TailFrom(LastAnchor))
             /\ textWithoutYaml = Trim(TextBefore(LastAnchor))
        ELSE /\ ~control.ok
             /\ textWithoutYaml = rawText

\* a bare control block of exactly 20 lines: its first line is the anchor
C17_Witness ==
    /\ Extraction
    /\ NoFencedControl
    /\ Len(TrimmedLines) = 20
    /\ LastAnchor = 1
    /\ control.ok
    /\ textWithoutYaml = <<>>

----------------------------------------------------------------------------
(* C18: for each of the eight headers of the table, a block with that      *)
(* header and an empty body is classified as a write whose path and        *)
(* dialect are those of the table.                                         *)

Row(header, path, dialect) ==
    [header |-> header, path |-> path, dialect |-> dialect]

HeaderTable ==
    {Row(SrcA, SrcA, "replace"),
     Row(SrcA \o <<" ">> \o StandardDiff, SrcA, "standard-diff"),
     Row(Quoted(MyFile), MyFile, "replace"),
     Row(Quoted(MyFile) \o <<" ">> \o SearchReplace, MyFile, "search-replace"),
     Row(MyFile, MyFile, "replace"),
     Row(MyFile \o <<" ">> \o SearchReplace, MyFile, "search-replace"),
     Row(<<"/", "/", " ">> \o SrcA, SrcA, "replace"),
     Row(<<"ts", " ", "/", "/", " ">> \o Quoted(SrcA) \o <<" ">> \o StandardDiff,
         SrcA, "standard-diff")}

Classifies(block, row) ==
    /\ block.result.ok
    /\ block.result.operation.type = "write"
    /\ block.result.operation.path = row.path
    /\ block.result.operation.patchStrategy = row.dialect

C18_HeaderGrammar ==
    \A i \in 1..Len(scanned) : \A row \in HeaderTable :
        (Trim(scanned[i].rawHeader) = row.header /\ scanned[i].rawContent = <<>>)
            => Classifies(scanned[i], row)

\* the last row of the table: ts // "src/a.ts" standard-diff
C18_Witness ==
    \E i \in 1..Len(scanned) :
        /\ Trim(scanned[i].rawHeader) =
               <<"ts", " ", "/", "/", " ">> \o Quoted(SrcA) \o <<" ">> \o StandardDiff
        /\ scanned[i].rawContent = <<>>
        /\ scanned[i].result.operation = Write(SrcA, <<>>, "standard-diff")

----------------------------------------------------------------------------
(* C19: a header that gives a path followed by a token that is not one of  *)
(* replace, standard-diff, search-replace is rejected by                   *)
(* parseCodeBlockHeader, but the block is not: parseCodeBlock then takes   *)
(* the whole header, the token and any quotes included, as the path of a   *)
(* write (of a delete when the body is the delete marker), with the        *)
(* dialect inferred from the body.                                         *)

\* the header as parseCodeBlock hands it to parseCodeBlockHeader
Normalised(block) == AfterLeadingComment(AfterComment(Trim(block.rawHeader)))

\* a path, white space and one more token, which is no strategy
UnknownStrategy(headerLine) ==
    \E path \in {SrcA, Quoted(MyFile), <<"my">>} :
        \E token \in {<<"bogus">>, <<"file", ".", "ts">>} :
            headerLine = path \o <<" ">> \o token

C19_UnknownStrategyKeepsBlock ==
    \A i \in 1..Len(scanned) :
        UnknownStrategy(Normalised(scanned[i])) =>
            /\ ~parseCodeBlockHeader(Normalised(scanned[i])).ok
            /\ scanned[i].result.ok
            /\ scanned[i].result.operation.type \in {"write", "delete"}
            /\ scanned[i].result.operation.path = Normalised(scanned[i])

\* C19 as stated: the block yields no operation
C19_Original ==
    \A i \in 1..Len(scanned) :
        UnknownStrategy(Normalised(scanned[i])) => ~scanned[i].result.ok

\* src/a.ts bogus becomes a write to the path "src/a.ts bogus"
C19_Witness ==
    \E i \in 1..Len(scanned) :
        /\ Normalised(scanned[i]) = SrcA \o <<" ", "bogus">>
        /\ scanned[i].result.operation =
               Write(SrcA \o <<" ", "bogus">>, <<"x">>, "replace")

----------------------------------------------------------------------------
(* C20: for a replace write the parser strips at most one leading CRLF or  *)
(* LF from the body of the block and keeps the trailing newline and every  *)
(* other character; for standard-diff and search-replace the content is    *)
(* the body.                                                               *)

C20_ContentNormalisation ==
    \A i \in 1..Len(scanned) :
        (scanned[i].result.ok /\ scanned[i].result.operation.type = "write") =>
            scanned[i].result.operation.content =
                IF scanned[i].result.operation.patchStrategy = "replace"
                THEN StripLeadingNewline(scanned[i].rawContent)
                ELSE scanned[i].rawContent

----------------------------------------------------------------------------
(* Step 4 when the per-file tasks complete in any order.  applyOperations   *)
(* starts one promise per group (lines 177-189) and awaits them together    *)
(* (line 191); which suspended task resumes next is decided by the job      *)
(* queue of the runtime, not by patch.ts.  In the actions below any task of *)
(* the queue may resume next, so every interleaving of the tasks is a       *)
(* behaviour.                                                               *)

Without(q, t) == SelectSeq(q, LAMBDA u : u # t)

\* mutant of Settle: a later result is recorded over the first error
Settle_Last(states, err, task) ==
    IF task.res.success
    THEN [states |-> MapSet(states, task.path, task.res.content), err |-> err]
    ELSE [states |-> states, err |-> task.res.error]

\* lines 181-187: the continuation of a task whose chain has returned
Settle(states, err, task) ==
    IF err # NoError
    THEN [states |-> states, err |-> err]
    ELSE IF task.res.success
    THEN [states |-> MapSet(states, task.path, task.res.content), err |-> err]
    ELSE [states |-> states, err |-> task.res.error]

\* line 59 resumed, for any task suspended on its patcher
ResumePatchAny ==
    /\ pc = "run"
    /\ \E t \in Range(queue) :
        /\ tasks[t].st = "await_patch"
        /\ LET task == tasks[t]
               run == AfterPatch(task.path, task.ops, remappedOps, task.cur,
                                 task.i, task.log, task.pending)
           IN  /\ tasks' = [tasks EXCEPT ![t] = Suspend(task.path, task.ops, run)]
               /\ patcherCalls' = patcherCalls \o run.calls
    /\ UNCHANGED <<operations, given, heap, fileStates, pathMapping, renameIdx,
                   remappedOps, opsByFile, queue, firstError, result, pc>>
    /\ UNCHANGED <<lineVars, parseVars, earlier>>

\* lines 180-187 resumed, for any task whose chain has returned
ResumeResultAny ==
    /\ pc = "run"
    /\ \E t \in Range(queue) :
        /\ tasks[t].st = "await_chain"
        /\ LET settled == Settle(heap[fileStates], firstError, tasks[t])
           IN  /\ tasks' = [tasks EXCEPT ![t].st = "done"]
               /\ queue' = Without(queue, t)
               /\ heap' = [heap EXCEPT ![fileStates] = settled.states]
               /\ firstError' = settled.err
    /\ UNCHANGED <<operations, given, fileStates, pathMapping, renameIdx,
                   remappedOps, opsByFile, patcherCalls, result, pc>>
    /\ UNCHANGED <<lineVars, parseVars, earlier>>

\* the caller keeps what the call returned and makes the same call again
CallAgain ==
    /\ pc = "done"
    /\ earlier = NoResult
    /\ earlier' = [result |-> result,
                   files |-> IF result.success THEN heap[result.newFileStates]
                             ELSE <<>>]
    /\ heap' = (OriginalRef :> heap[OriginalRef]) @@ (CopyRef :> <<>>)
    /\ fileStates' = ""
    /\ pathMapping' = <<>>
    /\ renameIdx' = 1
    /\ remappedOps' = <<>>
    /\ opsByFile' = <<>>
    /\ tasks' = <<>>
    /\ queue' = <<>>
    /\ firstError' = NoError
    /\ patcherCalls' = <<>>
    /\ result' = NoResult
    /\ pc' = "idle"
    /\ UNCHANGED <<operations, given, lineVars, parseVars>>

NextAnyOrder ==
    \/ Call
    \/ RenameStep
    \/ Plan
    \/ StartTask
    \/ AwaitAll
    \/ ResumePatchAny
    \/ ResumeResultAny
    \/ Finish
    \/ CallAgain

\* Independent files: chains on a.ts, b.ts and c.ts that succeed or fail,
\* at once or after a patcher call.
AnyOrderOps ==
    {Rename(A, B)}
    \cup {Delete(A), Delete(B)}
    \cup {Write(B, "w", "replace"), Write(C, "w", "replace")}
    \cup {Write(A, "x=>y", "search-replace"), Write(B, "=>x", "standard-diff")}

AnyOrderSnapshots == MapsOver(<<A, B>>, {Null, "x"})

InitAnyOrder ==
    /\ InitWith(SeqsUpTo(AnyOrderOps, MaxOps), AnyOrderSnapshots)
    /\ LineIdle
    /\ ParseIdle

SpecAnyOrder == InitAnyOrder /\ [][NextAnyOrder]_vars

----------------------------------------------------------------------------
(* Shorthands for the claims about the per-file tasks *)

\* one chain run from its start to its return, the patcher calls included
RECURSIVE ChainResult(_, _, _)
ChainResult(filePath, ops, run) ==
    IF run.st = "await_patch"
    THEN ChainResult(filePath, ops,
                     AfterPatch(filePath, ops, remappedOps, run.cur, run.i,
                                run.log, run.pending))
    ELSE run.res

FailedSnapshot == << [k |-> <<>>, v |-> "<failed>"] >>

\* the groups processed one after another, in this order, each on the
\* snapshot the group before it left
RECURSIVE Sequential(_, _)
Sequential(order, states) ==
    IF order = <<>> THEN states
    ELSE LET group == opsByFile[Head(order)]
             initialContent == OrNull(Content(states, group.path))
             res == ChainResult(group.path, group.ops,
                                RunChain(group.path, group.ops, remappedOps,
                                         initialContent, 1, <<>>))
         IN  IF res.success
             THEN Sequential(Tail(order), MapSet(states, group.path, res.content))
             ELSE FailedSnapshot

\* every order of the groups
Orders ==
    {order \in [1..Len(opsByFile) -> 1..Len(opsByFile)] :
         \A g, h \in 1..Len(opsByFile) : g # h => order[g] # order[h]}

\* the same paths with the same contents
SameSnapshot(m, n) == Range(m) = Range(n)

KeyAt(m, path) == CHOOSE i \in 1..Len(m) : m[i].k = path

----------------------------------------------------------------------------
(* C21: per-file parallel application is equivalent to sequential           *)
(* application: no two groups have the same path, and whatever the order in *)
(* which the per-file tasks resume and complete, a call in which no chain   *)
(* fails returns a snapshot with the same paths and contents as processing  *)
(* the groups one after another, in any order of the groups.                *)

C21_ParallelIsSequential ==
    /\ \A g, h \in 1..Len(opsByFile) :
           g # h => opsByFile[g].path # opsByFile[h].path
    /\ Succeeded =>
           \A order \in Orders :
               SameSnapshot(Returned_Map, Sequential(order, AfterRenames))

\* two groups that create their files, the second one completed first
C21_Witness ==
    /\ Succeeded
    /\ Len(opsByFile) = 2
    /\ ~MapHas(given, opsByFile[1].path)
    /\ ~MapHas(given, opsByFile[2].path)
    /\ Len(patcherCalls) > 0
    /\ KeyAt(Returned_Map, opsByFile[2].path) < KeyAt(Returned_Map, opsByFile[1].path)

----------------------------------------------------------------------------
(* C22: the control block is accepted only if projectId is a non-empty      *)
(* string and uuid is a valid UUID: a control that extractAndParseYaml      *)
(* gives, and a control that parseLLMResponse returns, has both.            *)

NonEmptyString(value) == value.kind = "string" /\ value.text # <<>>

ValidControl(entries) ==
    /\ NonEmptyString(MapGet(entries, "projectId", NoValue))
    /\ MapGet(entries, "uuid", NoValue).kind = "string"
    /\ MapGet(entries, "uuid", NoValue).text \in Uuids

C22_ControlFieldsValid ==
    /\ (Extraction /\ control.ok) => ValidControl(control.value)
    /\ ReturnedResponse => ValidControl(parsed.control)

----------------------------------------------------------------------------
(* findBestFileMatch on its own: one patch or delete of a target path,      *)
(* possibly after a rename, on snapshots whose keys are in every order.     *)

MaxPaths == 3

LibSrcF == <<"lib", "/", "src", "/", "a.ts">>
OtherF == <<"x", "/", "a.ts">>
WinF == <<"lib", "\\", "src", "/", "a.ts">>
Root == <<"/">>

MatchPaths == {F, SrcF, LibF, LibSrcF, B}

MatchTargets == {F, SrcF, LibSrcF, OtherF, WinF, Root, C}

\* the lists without repetition of at most n elements of S
ListsUpTo(S, n) ==
    {list \in SeqsUpTo(S, n) :
         \A i, j \in 1..Len(list) : i # j => list[i] # list[j]}

MatchSnapshots ==
    {[i \in 1..Len(list) |-> [k |-> list[i], v |-> "x"]] :
         list \in ListsUpTo(MatchPaths, MaxPaths)}

MatchOps ==
    {<<op>> : op \in {Delete(t) : t \in MatchTargets}
                     \cup {Write(t, "x=>y", "search-replace") : t \in MatchTargets}}

InitMatch ==
    /\ InitWith(MatchOps
                 \cup {<<Rename(SrcF, LibF)>> \o ops : ops \in MatchOps}
                 \cup {<<Rename(SrcF, B)>> \o ops : ops \in MatchOps},
                MatchSnapshots)
    /\ LineIdle
    /\ ParseIdle

SpecMatch == InitMatch /\ [][Next]_vars

----------------------------------------------------------------------------
(* C23: findBestFileMatch returns, for every target path and every list of  *)
(* available paths in every order: null when no available path has the      *)
(* target's basename; the single candidate when exactly one has it;         *)
(* otherwise the candidate whose count of matching trailing path segments,  *)
(* with backslash treated as slash, is strictly greater than that of every  *)
(* other candidate, and null when there is no such candidate.               *)

\* the segments of a path, "/" and "\\" both separating
RECURSIVE Segments_Of(_)
Segments_Of(p) ==
    LET seps == {i \in 1..Len(p) : p[i] \in {"/", "\\"}}
        first == CHOOSE i \in seps : \A j \in seps : i <= j
    IN  IF seps = {} THEN <<p>>
        ELSE <<SubSeq(p, 1, first - 1)>> \o Segments_Of(SubSeq(p, first + 1, Len(p)))

\* how many segments two paths share, counted from their ends
TrailingMatches(p, q) ==
    LET a == Segments_Of(p)
        b == Segments_Of(q)
        shared == {n \in 0..Min(Len(a), Len(b)) :
                       \A i \in 0..(n - 1) : a[Len(a) - i] = b[Len(b) - i]}
    IN  CHOOSE n \in shared : \A m \in shared : m <= n

WithBasename(target, available) ==
    {i \in 1..Len(available) : Basename(available[i]) = Basename(target)}

StrictlyBest(target, available) ==
    {i \in WithBasename(target, available) :
         \A o \in WithBasename(target, available) \ {i} :
             TrailingMatches(target, available[i]) > TrailingMatches(target, available[o])}

BestByScore(target, available) ==
    LET candidates == WithBasename(target, available)
        best == StrictlyBest(target, available)
    IN  IF candidates = {} THEN NullPath
        ELSE IF Cardinality(candidates) = 1
        THEN available[CHOOSE i \in candidates : TRUE]
        ELSE IF best = {} THEN NullPath
        ELSE available[CHOOSE i \in best : TRUE]

\* the operation as it reaches step 2.5
Reaching(j) == Remap(pathMapping, otherOps[j])

C23_BestFileMatch ==
    /\ pc = "idle" =>
           \A target \in MatchTargets \cup MatchPaths :
               findBestFileMatch(target, MapKeys(given))
                   = BestByScore(target, MapKeys(given))
    /\ Planned =>
           \A j \in 1..Len(otherOps) :
               ~MapHas(AfterRenames, Reaching(j).path) =>
                   remappedOps[j].path =
                       IF BestByScore(Reaching(j).path, MapKeys(AfterRenames)) = NullPath
                       THEN Reaching(j).path
                       ELSE BestByScore(Reaching(j).path, MapKeys(AfterRenames))

\* three candidates; the one that shares two segments with the target wins,
\* because of the backslash of the target
C23_Witness ==
    /\ Planned
    /\ operations = <<Delete(WinF)>>
    /\ MapKeys(given) = <<LibF, F, SrcF>>
    /\ remappedOps[1].path = SrcF

\* ---------------------------------------------------------------------
\* The path-rewrite map after the rename loop (lines 124-138)

\* following the map from p one more time does not move
Settled(mapping, p) ==
    MapHas(mapping, p) => MapGet(mapping, p, UndefinedPath) = p

\* the path a file at p before rename i is at after the renames i, i+1, ...
RECURSIVE Track(_, _)
Track(p, i) ==
    IF i > Len(renameOps) THEN p
    ELSE Track(IF renameOps[i].from = p THEN renameOps[i].to ELSE p, i + 1)

\* the last rename whose source is p
LastFrom(p) ==
    CHOOSE i \in 1..Len(renameOps) :
        /\ renameOps[i].from = p
        /\ \A j \in (i + 1)..Len(renameOps) : renameOps[j].from # p

\* a rename moves a file onto the source of an earlier rename
ReusesSource ==
    \E i, j \in 1..Len(renameOps) :
        i < j /\ renameOps[j].to = renameOps[i].from

\* C24 as stated: once the renames are done, for every path x of the map
\* one lookup gives the path that following the map repeatedly ends at,
\* that is, looking the result up again does not change it
C24_OneLookupIsFixpoint ==
    Planned =>
        \A x \in Range(MapKeys(pathMapping)) :
            Settled(pathMapping, MapGet(pathMapping, x, UndefinedPath))

\* C24 amended: the keys of the map are the sources of the renames, and one
\* lookup of x gives the path reached from x by the last rename from x and
\* the renames after it, taken in order; the map is transitively closed
\* when no rename moves a file onto the source of an earlier rename
C24_LookupTracksRenames ==
    Planned =>
        /\ Range(MapKeys(pathMapping))
               = {renameOps[i].from : i \in 1..Len(renameOps)}
        /\ \A x \in Range(MapKeys(pathMapping)) :
               MapGet(pathMapping, x, UndefinedPath) = Track(x, LastFrom(x))
        /\ ~ReusesSource =>
               \A x \in Range(MapKeys(pathMapping)) :
                   Settled(pathMapping, MapGet(pathMapping, x, UndefinedPath))

\* a file is moved away from a.ts and another one onto it: c.ts leads to
\* a.ts, and a.ts leads on to b.ts
C24_Witness ==
    /\ Planned
    /\ renameOps = <<Rename(A, B), Rename(C, A)>>
    /\ MapGet(pathMapping, C, UndefinedPath) = A
    /\ MapGet(pathMapping, A, UndefinedPath) = B

----------------------------------------------------------------------------
(* C25: the dialect of a write is the strategy the header names, whatever  *)
(* the body; under a header that names none, it is search-replace when a   *)
(* line of the body is '<<<<<<< SEARCH' (white space may follow) and the   *)
(* body contains '>>>>>>> REPLACE', also when the body looks like a        *)
(* unified diff; otherwise standard-diff when the body starts with '--- '  *)
(* and contains '+++ ' and '@@'; otherwise replace.                        *)

\* the lines of a body, the line breaks left out
RECURSIVE BodyLines(_)
BodyLines(text) ==
    LET breaks == {i \in 1..Len(text) : IsLineBreak(text[i])}
        first == CHOOSE i \in breaks : \A j \in breaks : i <= j
    IN  IF breaks = {} THEN <<text>>
        ELSE <<SubSeq(text, 1, first - 1)>> \o BodyLines(From(text, first + 1))

LooksLikeSearchReplace(body) ==
    /\ \E i \in 1..Len(BodyLines(body)) :
           TrimEnd(BodyLines(body)[i]) = <<"<<<<<<<", " ", "SEARCH">>
    /\ \E i \in 1..Len(body) : At(body, i, <<">>>>>>>", " ", "REPLACE">>)

LooksLikeDiff(body) ==
    /\ Len(body) >= 2 /\ SubSeq(body, 1, 2) = <<"---", " ">>
    /\ \E i \in 1..Len(body) : At(body, i, <<"+++", " ">>)
    /\ \E i \in 1..Len(body) : body[i] = "@@"

BodyDialect(body) ==
    IF LooksLikeSearchReplace(body) THEN "search-replace"
    ELSE IF LooksLikeDiff(body) THEN "standard-diff"
    ELSE "replace"

\* the headers that name a strategy
ExplicitHeaders ==
    {Row(SrcA \o <<" ">> \o StandardDiff, SrcA, "standard-diff"),
     Row(Quoted(MyFile) \o <<" ">> \o SearchReplace, MyFile, "search-replace"),
     Row(MyFile \o <<" ">> \o SearchReplace, MyFile, "search-replace"),
     Row(<<"ts", " ", "/", "/", " ">> \o Quoted(SrcA) \o <<" ">> \o StandardDiff,
         SrcA, "standard-diff"),
     Row(SrcA \o <<" ", " ", "replace">>, SrcA, "replace")}

IsWrite(block) == block.result.ok /\ block.result.operation.type = "write"

C25_DialectInference ==
    \A i \in 1..Len(scanned) :
        IsWrite(scanned[i]) =>
            LET named == {row \in ExplicitHeaders :
                              row.header = Trim(scanned[i].rawHeader)}
            IN  /\ \A row \in named :
                       scanned[i].result.operation.patchStrategy = row.dialect
                /\ named = {} =>
                       scanned[i].result.operation.patchStrategy
                           = BodyDialect(scanned[i].rawContent)

\* a body that is a unified diff followed by a search-replace block, under
\* a header that names no strategy
C25_Witness ==
    /\ \E i \in 1..Len(scanned) :
           /\ Trim(scanned[i].rawHeader) = SrcA
           /\ scanned[i].rawContent = DiffBody \o SearchBody
           /\ IsWrite(scanned[i])
           /\ scanned[i].result.operation.patchStrategy = "search-replace"

----------------------------------------------------------------------------
(* calculateLcsLength on its own, lines 197-221 *)

MaxLines == 3

\* the lists of at most MaxLines lines
LineLists == SeqsUpTo({<<>>, <<"a">>, <<"b">>}, MaxLines)

\* one call of calculateLcsLength
CalculateLcs ==
    /\ lineChanges = NoResult
    /\ lineChanges' = [length |-> calculateLcsLength(lineArgs.a, lineArgs.b)]
    /\ UNCHANGED <<applyVars, lineArgs, parseVars>>

InitLcs ==
    /\ ApplyIdle
    /\ ParseIdle
    /\ lineArgs \in [a : LineLists, b : LineLists]
    /\ lineChanges = NoResult

SpecLcs == InitLcs /\ [][CalculateLcs]_vars

----------------------------------------------------------------------------
(* C26: for every pair of lists of lines calculateLcsLength returns the    *)
(* length of a longest common subsequence as the recurrence over prefixes  *)
(* defines it (LongestCommon), and the value it returns for the two lists  *)
(* in the other order is the same.                                         *)

LcsReturned == lineChanges # NoResult

C26_LcsLength ==
    LcsReturned =>
        /\ lineChanges.length = LongestCommon(lineArgs.a, lineArgs.b)
        /\ lineChanges.length = calculateLcsLength(lineArgs.b, lineArgs.a)

\* the shorter list comes first, and the common subsequence has two lines
\* that are not adjacent in the longer list
C26_Witness ==
    /\ LcsReturned
    /\ lineArgs.a = << <<"a">>, <<"b">> >>
    /\ lineArgs.b = << <<"a">>, <<>>, <<"b">> >>
    /\ lineChanges.length = 2

----------------------------------------------------------------------------
(* applyOperations called a second time on the same snapshot, with the     *)
(* renames and the other operations interleaved in another way             *)

\* the lists with the renames of ops in their order and the other
\* operations of ops in their order
Interleavings(ops) ==
    {list \in [1..Len(ops) -> Range(ops)] :
         /\ SelectSeq(list, LAMBDA op : op.type = "rename")
                = SelectSeq(ops, LAMBDA op : op.type = "rename")
         /\ SelectSeq(list, LAMBDA op : op.type # "rename")
                = SelectSeq(ops, LAMBDA op : op.type # "rename")}

\* what a call returned, with the snapshot it returned
Outcome ==
    [result |-> result,
     files |-> IF result.success THEN heap[result.newFileStates] ELSE <<>>]

\* the caller keeps what the call returned and calls again
CallReordered ==
    /\ pc = "done"
    /\ earlier = NoResult
    /\ \E list \in Interleavings(operations) :
           /\ list # operations
           /\ operations' = list
    /\ earlier' = Outcome
    /\ heap' = (OriginalRef :> heap[OriginalRef]) @@ (CopyRef :> <<>>)
    /\ fileStates' = ""
    /\ pathMapping' = <<>>
    /\ renameIdx' = 1
    /\ remappedOps' = <<>>
    /\ opsByFile' = <<>>
    /\ tasks' = <<>>
    /\ queue' = <<>>
    /\ firstError' = NoError
    /\ patcherCalls' = <<>>
    /\ result' = NoResult
    /\ pc' = "idle"
    /\ UNCHANGED <<given, lineVars, parseVars>>

NextReordered ==
    \/ Call
    \/ RenameStep
    \/ Plan
    \/ StartTask
    \/ AwaitAll
    \/ ResumePatch
    \/ ResumeResult
    \/ Finish
    \/ CallReordered

InitReordered ==
    /\ InitWith(SeqsUpTo({Rename(A, B), Rename(B, C), Rename(C, A),
                          Delete(A), Delete(C),
                          Write(A, "w", "replace"),
                          Write(B, "x=>y", "search-replace")}, MaxOps),
                MapsOver(<<A, B>>, {Null, "x"}))
    /\ LineIdle
    /\ ParseIdle

SpecReordered == InitReordered /\ [][NextReordered]_vars

----------------------------------------------------------------------------
(* C27: a call whose list has the same renames in the same order and the   *)
(* same other operations in the same order as the list of an earlier call  *)
(* on the same snapshot, interleaved in another way, returns what the      *)
(* earlier call returned: the same snapshot, or the same error.            *)

C27_InterleavingIrrelevant ==
    (pc = "done" /\ earlier # NoResult) => Outcome = earlier

\* the write to a.ts stood before the rename of a.ts in the earlier call
\* and stands after it in this one; both calls wrote b.ts
C27_Witness ==
    /\ pc = "done"
    /\ earlier # NoResult
    /\ operations = <<Rename(A, B), Write(A, "w", "replace")>>
    /\ result.success
    /\ MapGet(Returned_Map, B, Undefined) = "w"
    /\ MapGet(Returned_Map, A, Undefined) = Null

----------------------------------------------------------------------------
(* C28: the error of a call in which chains fail *)

FailingChains == {t \in 1..Len(tasks) : ChainFailed(t)}

\* the same call was made before and every task of this one has completed
CalledTwice == pc = "done" /\ earlier # NoResult /\ ~RenameFailed

CompletesFailed(t) ==
    /\ tasks[t].st = "await_chain"
    /\ tasks'[t].st = "done"
    /\ ~tasks[t].res.success

----------------------------------------------------------------------------
(* C29: when step 2.5 replaces the path of a patch or a delete by a fuzzy  *)
(* match, the path adopted holds content (not null) in the working         *)
(* snapshot as the renames left it.                                        *)

\* step 2.5 gave operation j another path than the one it reached it with
Redirected(j) == remappedOps[j].path # Reaching(j).path

C29_RepairAdoptsContent ==
    Planned =>
        \A j \in 1..Len(remappedOps) :
            Redirected(j) =>
                Content(AfterRenames, remappedOps[j].path) \notin {Null, Undefined}

----------------------------------------------------------------------------
(* C30: calculateLineChanges with the two snapshots exchanged *)

\* the call with the original and the new snapshot exchanged
Exchanged ==
    calculateLineChanges(lineArgs.op, lineArgs.newFiles, lineArgs.originalFiles)

Mirrored(changes, other) ==
    /\ other.added = changes.removed
    /\ other.removed = changes.added
    /\ other.difference = changes.difference

WriteReturned == LineReturned /\ lineArgs.op.type = "write"

\* C30 as stated: for a write, exchanging the snapshots exchanges added and
\* removed and leaves difference as it is, whatever the contents
C30_Symmetric ==
    WriteReturned => Mirrored(lineChanges, Exchanged)

\* one side is absent and the other is the empty string
AbsentAgainstEmpty == {OldContent, NewContent} = {NullText, <<>>}

\* C30 amended: for a write, exchanging the snapshots exchanges added and
\* removed and leaves difference as it is, also when one side is absent or
\* the empty string, unless one side is absent and the other is the empty
\* string: from absent to '' one line is added, from '' to absent nothing
\* is counted.
C30_SymmetricButAbsentAgainstEmpty ==
    WriteReturned =>
        /\ ~AbsentAgainstEmpty => Mirrored(lineChanges, Exchanged)
        /\ (OldContent = NullText /\ NewContent = <<>>) =>
               /\ lineChanges = LineChanges(1, 0, 1)
               /\ Exchanged = LineChanges(0, 0, 0)
        /\ (OldContent = <<>> /\ NewContent = NullText) =>
               /\ lineChanges = LineChanges(0, 0, 0)
               /\ Exchanged = LineChanges(1, 0, 1)

\* from the empty string to two lines: two added, and two removed the
\* other way round
C30_Witness ==
    /\ WriteReturned
    /\ OldContent = <<>>
    /\ NewContent = <<"a", "\n", "b">>
    /\ lineChanges = LineChanges(2, 0, 2)
    /\ Exchanged = LineChanges(0, 2, 2)

====
